---- MODULE Spec2Model ----
(***************************************************************************)
(* A model of the Redox kernel core: the Environment's scheme list and its *)
(* URL dispatch (kernel/env/mod.rs), the per-context file tables driven by *)
(* the file syscalls (kernel/syscall/file.rs) and the boot registrations   *)
(* of kernel/main.rs.                                                      *)
(*                                                                         *)
(* Strings are sequences of tokens.  A token is ":" , "/" , "\n" or a run  *)
(* of other characters, so "custom:/x" is <<"custom", ":", "/", "x">> and  *)
(* the empty string is << >>.                                              *)
(***************************************************************************)
EXTENDS Naturals, Integers, Sequences, FiniteSets, TLC

VARIABLES
    booted,     \* ENV_PTR is Some: init() has run
    schemes,    \* Environment.schemes: the registered schemes, in order
    contexts,   \* Environment.contexts: the contexts, in push order
    current,    \* index of the running context in contexts, 0 when none
    last,       \* the last kernel operation: its arguments and its result
    closedFds,  \* history: per context, fds closed and not allocated since
    dupPairs,   \* history: per context, <<fd, new_fd>> of successful dups
    pipes,      \* per pipe, its buffer and the out_fds pipe2 stored
    clock_monotonic,  \* Environment.clock_monotonic
    clock_realtime,   \* Environment.clock_realtime
    interrupts, \* Environment.interrupts: the counter of each vector
    ticks,      \* history: the number of 0x20 vectors handled
    entries,    \* history: the number of entries to kernel()
    trap,       \* the last entry to kernel(): its vector and what it did
    enabled,    \* ContextManager.enabled: context_switch does switch
    intr,       \* the CPU's interrupt flag: interrupts are enabled
    held,       \* the Intex guards alive in the running code, oldest first
    pc,         \* per context, the position of its code that runs step
                \* by step; before init() pushes the root, of the boot code
    RTL8139_TX, \* the static of the RTL8139 driver: the transmit descriptor
                \* the next send uses, shared by every card
    rtl8139     \* the driver's code: the call that runs, the ports of the
                \* running send and the sends done since the last init

vars ==
    <<booted, schemes, contexts, current, last, closedFds, dupPairs, pipes,
      clock_monotonic, clock_realtime, interrupts, ticks, entries, trap,
      enabled, intr, held, pc, RTL8139_TX, rtl8139>>

----------------------------------------------------------------------------
(* Bounds of the model *)

\* fds above MaxFd are never allocated (usize is not exhausted)
MaxFd == 2
\* the number of pipes alive at one time
MaxPipes == 1
\* the number of devices pci_init finds
MaxPciDevices == 1
\* the longest cwd a context is given
MaxCwd == 2
\* the bytes a pipe buffers before its writers block
MaxBuf == 2
\* the width of a usize in bits, scaled down
UsizeBits == 4

----------------------------------------------------------------------------
(* Strings *)

COLON == ":"
SLASH == "/"
NEWLINE == "\n"
\* a byte sequence that is not UTF-8
BADBYTES == "<non-utf8>"
\* a user pointer that is null, where a path or a buffer is expected
NULLPTR == "<null>"

\* system::syscall::O_CREAT
O_CREAT == 512

\* flags & bit == bit, for a one-bit mask
HasFlag(flags, bit) == (flags \div bit) % 2 = 1

RECURSIVE trim_start(_)
trim_start(s) ==
    IF s # << >> /\ Head(s) = SLASH THEN trim_start(Tail(s)) ELSE s

RECURSIVE trim_end(_)
trim_end(s) ==
    IF s # << >> /\ s[Len(s)] = SLASH
    THEN trim_end(SubSeq(s, 1, Len(s) - 1))
    ELSE s

\* str::trim_matches('/')
trim_matches(s) == trim_end(trim_start(s))

\* str::find(':'): the index of the first ':' token, 0 when there is none
RECURSIVE find_colon(_, _)
find_colon(s, i) ==
    IF i > Len(s) THEN 0
    ELSE IF s[i] = COLON THEN i
    ELSE find_colon(s, i + 1)

----------------------------------------------------------------------------
(* Results *)

Ok(v) == [ok |-> TRUE, val |-> v, err |-> "none"]
Err(e) == [ok |-> FALSE, val |-> 0, err |-> e]

NoResource == [kind |-> "none", obj |-> << >>, pipe |-> 0, dup |-> FALSE]
Resource(kind, obj, pipe) ==
    [kind |-> kind, obj |-> obj, pipe |-> pipe, dup |-> FALSE]

OkRes(r) == [ok |-> TRUE, res |-> r, err |-> "none"]
ErrRes(e) == [ok |-> FALSE, res |-> NoResource, err |-> e]

----------------------------------------------------------------------------
(* Url *)

NoUrl == [valid |-> FALSE, scheme |-> << >>, reference |-> << >>]

\* Url::from_str: split on the first ':'; without one the scheme is empty
\* and the whole input is the reference; EINVAL on unrepresentable input
Url_from_str(path) ==
    IF \E i \in 1..Len(path) : path[i] = BADBYTES THEN NoUrl
    ELSE LET i == find_colon(path, 1) IN
         IF i = 0
         THEN [valid |-> TRUE, scheme |-> << >>, reference |-> path]
         ELSE [valid |-> TRUE,
               scheme |-> SubSeq(path, 1, i - 1),
               reference |-> SubSeq(path, i + 1, Len(path))]

\* Context::canonicalize: cwd joined with the path unless it has a ':'
canonicalize(cwd, path) ==
    IF find_colon(path, 1) # 0 THEN path ELSE cwd \o path

----------------------------------------------------------------------------
(* Schemes *)

KScheme(kind, name) == [kind |-> kind, name |-> name]

\* KScheme::scheme() of the built-in providers; the device drivers keep the
\* trait's default, the empty name
BuiltinName(kind) ==
    CASE kind = "DebugScheme" -> <<"debug">>
      [] kind = "InitFsScheme" -> <<"initfs">>
      [] kind = "ContextScheme" -> <<"context">>
      [] kind = "DisplayScheme" -> <<"display">>
      [] kind = "EnvScheme" -> <<"env">>
      [] kind = "InterruptScheme" -> <<"interrupt">>
      [] kind = "KlogScheme" -> <<"klog">>
      [] kind = "MemoryScheme" -> <<"memory">>
      [] kind = "TestScheme" -> <<"test">>
      [] kind = "DiskScheme" -> <<"disk">>
      [] kind = "EthernetScheme" -> <<"ethernet">>
      [] kind = "IpScheme" -> <<"ip">>
      [] kind = "TcpScheme" -> <<"tcp">>
      [] kind = "UdpScheme" -> <<"udp">>
      [] OTHER -> << >>

Builtin(kind) == KScheme(kind, BuiltinName(kind))

\* pci::pci_init: one scheme pushed per device found
pci_init(n) == [i \in 1..n |-> Builtin("PciDevice")]

\* the pushes of init(), in order
init_schemes(acpi, npci) ==
    (IF acpi THEN <<Builtin("Acpi")>> ELSE << >>)
    \o <<Builtin("Ps2"), Builtin("Serial")>>
    \o pci_init(npci)
    \o <<Builtin("DebugScheme"), Builtin("InitFsScheme"),
         Builtin("ContextScheme"), Builtin("DisplayScheme"),
         Builtin("EnvScheme"), Builtin("InterruptScheme"),
         Builtin("KlogScheme"), Builtin("MemoryScheme"),
         Builtin("TestScheme")>>
    \o <<Builtin("DiskScheme")>>
    \o <<Builtin("EthernetScheme"), Builtin("IpScheme"),
         Builtin("TcpScheme"), Builtin("UdpScheme")>>

\* Scheme::new(name): the scheme handle and its server resource
Scheme_new(name) ==
    [scheme |-> KScheme("Scheme", name),
     server |-> Resource("server", name, 0)]

\* the loop `for scheme in schemes { if scheme.scheme() == name { return`:
\* the index of the first entry with that name, 0 when the loop falls through
RECURSIVE first_match(_, _, _)
first_match(list, name, i) ==
    IF i > Len(list) THEN 0
    ELSE IF list[i].name = name THEN i
    ELSE first_match(list, name, i + 1)

\* the root listing with `list = list + scheme_str + "\n"` for every name
RECURSIVE scheme_list_trailing(_, _, _)
scheme_list_trailing(list, i, acc) ==
    IF i > Len(list) THEN acc
    ELSE LET scheme_str == list[i].name IN
         scheme_list_trailing(list, i + 1,
             IF scheme_str # << >>
             THEN acc \o scheme_str \o <<NEWLINE>>
             ELSE acc)

\* the root listing built by Environment::open
RECURSIVE scheme_list(_, _, _)
scheme_list(list, i, acc) ==
    IF i > Len(list) THEN acc
    ELSE LET scheme_str == list[i].name IN
         scheme_list(list, i + 1,
             IF scheme_str # << >>
             THEN IF acc # << >>
                  THEN acc \o <<NEWLINE>> \o scheme_str
                  ELSE scheme_str
             ELSE acc)

\* what a provider answers to open: a resource of its own, or its error
provider_open(scheme, url, answer) ==
    IF answer = "ok"
    THEN OkRes(Resource("file", scheme.name, 0))
    ELSE ErrRes(answer)

\* what a provider answers to mkdir, rmdir, stat, unlink
provider_unit(answer) == IF answer = "ok" THEN Ok(0) ELSE Err(answer)

\* which provider a routing operation called (its index in the scheme list)
\* and what the provider answered
Call(i, answer) == [provider |-> i, answer |-> answer]
NoCall == Call(0, "none")

EnvResult(ret, list, call) == [ret |-> ret, schemes |-> list, call |-> call]

\* the O_CREAT arm without the scan for an existing name
env_register_nocheck(list, url_path) ==
    LET pair == Scheme_new(url_path) IN
    EnvResult(OkRes(pair.server), Append(list, pair.scheme), NoCall)

\* the O_CREAT arm with the new scheme inserted at the front of the list
env_register_front(list, url_path) ==
    IF first_match(list, url_path, 1) # 0
    THEN EnvResult(ErrRes("EEXIST"), list, NoCall)
    ELSE LET pair == Scheme_new(url_path) IN
         EnvResult(OkRes(pair.server), <<pair.scheme>> \o list, NoCall)

\* the O_CREAT arm of Environment::open
env_register(list, url_path) ==
    IF first_match(list, url_path, 1) # 0
    THEN EnvResult(ErrRes("EEXIST"), list, NoCall)
    ELSE LET pair == Scheme_new(url_path) IN
         EnvResult(OkRes(pair.server), Append(list, pair.scheme), NoCall)

\* the dispatch arm comparing the scheme names with the URL's reference
env_dispatch_open_ref(list, url, flags, answer) ==
    LET i == first_match(list, url.reference, 1) IN
    IF i # 0
    THEN EnvResult(provider_open(list[i], url, answer), list, Call(i, answer))
    ELSE EnvResult(ErrRes("ENOENT"), list, NoCall)

\* the dispatch arm of Environment::open
env_dispatch_open(list, url, flags, answer) ==
    LET i == first_match(list, url.scheme, 1) IN
    IF i # 0
    THEN EnvResult(provider_open(list[i], url, answer), list, Call(i, answer))
    ELSE EnvResult(ErrRes("ENOENT"), list, NoCall)

\* Environment::open without the O_CREAT arm
Environment_open_nocreate(list, url, flags, answer) ==
    IF url.scheme = << >>
    THEN IF trim_matches(url.reference) = << >>
         THEN EnvResult(
                  OkRes(Resource("list", scheme_list(list, 1, << >>), 0)),
                  list, NoCall)
         ELSE EnvResult(ErrRes("ENOENT"), list, NoCall)
    ELSE env_dispatch_open(list, url, flags, answer)

\* Environment::open that, without O_CREAT, hands a url without a scheme
\* to the scheme its reference names
Environment_open_byref(list, url, flags, answer) ==
    IF url.scheme = << >>
    THEN IF trim_matches(url.reference) = << >>
         THEN EnvResult(
                  OkRes(Resource("list", scheme_list(list, 1, << >>), 0)),
                  list, NoCall)
         ELSE IF HasFlag(flags, O_CREAT)
         THEN env_register(list, url.reference)
         ELSE env_dispatch_open_ref(list, url, flags, answer)
    ELSE env_dispatch_open(list, url, flags, answer)

\* Environment::open
Environment_open(list, url, flags, answer) ==
    IF url.scheme = << >>
    THEN IF trim_matches(url.reference) = << >>
         THEN EnvResult(
                  OkRes(Resource("list", scheme_list(list, 1, << >>), 0)),
                  list, NoCall)
         ELSE IF HasFlag(flags, O_CREAT)
         THEN env_register(list, url.reference)
         ELSE EnvResult(ErrRes("ENOENT"), list, NoCall)
    ELSE env_dispatch_open(list, url, flags, answer)

\* Environment::mkdir without the test of the url's scheme
Environment_mkdir_scan(list, url, answer) ==
    LET i == first_match(list, url.scheme, 1) IN
    IF i # 0
    THEN EnvResult(provider_unit(answer), list, Call(i, answer))
    ELSE EnvResult(Err("ENOENT"), list, NoCall)

\* Environment::mkdir
Environment_mkdir(list, url, answer) ==
    LET i == IF url.scheme # << >> THEN first_match(list, url.scheme, 1)
             ELSE 0 IN
    IF i # 0
    THEN EnvResult(provider_unit(answer), list, Call(i, answer))
    ELSE EnvResult(Err("ENOENT"), list, NoCall)

\* Environment::rmdir
Environment_rmdir(list, url, answer) ==
    LET i == IF url.scheme # << >> THEN first_match(list, url.scheme, 1)
             ELSE 0 IN
    IF i # 0
    THEN EnvResult(provider_unit(answer), list, Call(i, answer))
    ELSE EnvResult(Err("ENOENT"), list, NoCall)

\* Environment::stat
Environment_stat(list, url, answer) ==
    LET i == IF url.scheme # << >> THEN first_match(list, url.scheme, 1)
             ELSE 0 IN
    IF i # 0
    THEN EnvResult(provider_unit(answer), list, Call(i, answer))
    ELSE EnvResult(Err("ENOENT"), list, NoCall)

\* Environment::unlink
Environment_unlink(list, url, answer) ==
    LET i == IF url.scheme # << >> THEN first_match(list, url.scheme, 1)
             ELSE 0 IN
    IF i # 0
    THEN EnvResult(provider_unit(answer), list, Call(i, answer))
    ELSE EnvResult(Err("ENOENT"), list, NoCall)

----------------------------------------------------------------------------
(* Contexts and their file tables *)

Context(name) ==
    [name |-> name, cwd |-> << >>, files |-> << >>, blocked |-> FALSE,
     time |-> 0, exited |-> FALSE]
ContextFile(fd, resource) == [fd |-> fd, resource |-> resource]

Fds(files) == {files[i].fd : i \in 1..Len(files)}

SetMax(S) == CHOOSE m \in S : \A x \in S : x <= m

\* Context::next_fd: 1 + the largest fd of the table, 0 for an empty table
next_fd(files) == IF files = << >> THEN 0 ELSE 1 + SetMax(Fds(files))

\* the index of the first entry of the table with this fd, 0 when none has it
RECURSIVE file_index(_, _, _)
file_index(files, fd, i) ==
    IF i > Len(files) THEN 0
    ELSE IF files[i].fd = fd THEN i
    ELSE file_index(files, fd, i + 1)

\* Context::get_file / get_file_mut: the resource under fd, or EBADF
get_file(files, fd) ==
    LET i == file_index(files, fd, 1) IN
    IF i = 0 THEN ErrRes("EBADF") ELSE OkRes(files[i].resource)

\* Vec::remove(i), i counted from 1
Remove(s, i) == SubSeq(s, 1, i - 1) \o SubSeq(s, i + 1, Len(s))

\* Resource::dup: a handle of its own on the same object, or the
\* resource's error
Resource_dup(resource, answer) ==
    IF answer = "ok" THEN OkRes([resource EXCEPT !.dup = TRUE])
    ELSE ErrRes(answer)

\* PipeRead::new / PipeWrite::new(&read): the two ends of pipe p
PipeRead_new(p) == Resource("piperead", << >>, p)
PipeWrite_new(p) == Resource("pipewrite", << >>, p)

\* ContextManager::current: the running context, or ESRCH
current_ok == current # 0

\* the pipes that some file table still holds an end of
LivePipes ==
    UNION {{contexts[c].files[i].resource.pipe :
               i \in 1..Len(contexts[c].files)} : c \in 1..Len(contexts)}
    \ {0}

----------------------------------------------------------------------------
(* The file syscalls, as functions of the caller's context *)

\* no seek request reached a resource
NoSeek == [kind |-> "none", off |-> 0]

SysResult(ret, files, list, res, call, out) ==
    [ret |-> ret, files |-> files, schemes |-> list, res |-> res,
     call |-> call, out |-> out, seek |-> NoSeek]

\* do_sys_close with remove(i + 1): the entry after the match is removed
sys_close_next(files, list, fd) ==
    LET i == file_index(files, fd, 1) IN
    IF i # 0 /\ i <= Len(files)
    THEN SysResult(Ok(0), Remove(files, i + 1), list, NoResource, NoCall,
                   << >>)
    ELSE SysResult(Err("EBADF"), files, list, NoResource, NoCall, << >>)

\* do_sys_close with swap_remove(i): the last entry takes the place of the
\* removed one
sys_close_swap(files, list, fd) ==
    LET i == file_index(files, fd, 1) IN
    IF i # 0 /\ i <= Len(files)
    THEN SysResult(Ok(0),
                   IF i = Len(files) THEN Remove(files, i)
                   ELSE [Remove(files, Len(files)) EXCEPT
                            ![i] = files[Len(files)]],
                   list, NoResource, NoCall, << >>)
    ELSE SysResult(Err("EBADF"), files, list, NoResource, NoCall, << >>)

\* do_sys_close that returns 0 and leaves the entry in the table
sys_close_keep(files, list, fd) ==
    LET i == file_index(files, fd, 1) IN
    IF i # 0 /\ i <= Len(files)
    THEN SysResult(Ok(0), files, list, NoResource, NoCall, << >>)
    ELSE SysResult(Err("EBADF"), files, list, NoResource, NoCall, << >>)

\* do_sys_close: the first entry with this fd is removed
sys_close(files, list, fd) ==
    LET i == file_index(files, fd, 1) IN
    IF i # 0 /\ i <= Len(files)
    THEN SysResult(Ok(0), Remove(files, i), list, NoResource, NoCall, << >>)
    ELSE SysResult(Err("EBADF"), files, list, NoResource, NoCall, << >>)

\* do_sys_dup that installs the looked-up resource itself, not its dup()
sys_dup_share(files, list, fd, answer) ==
    LET resource == get_file(files, fd) IN
    IF ~resource.ok
    THEN SysResult(Err(resource.err), files, list, NoResource, NoCall, << >>)
    ELSE LET new_fd == next_fd(files) IN
         SysResult(Ok(new_fd),
                   Append(files, ContextFile(new_fd, resource.res)),
                   list, resource.res, NoCall, << >>)

\* do_sys_dup
sys_dup(files, list, fd, answer) ==
    LET resource == get_file(files, fd) IN
    IF ~resource.ok
    THEN SysResult(Err(resource.err), files, list, NoResource, NoCall, << >>)
    ELSE LET new_resource == Resource_dup(resource.res, answer) IN
         IF ~new_resource.ok
         THEN SysResult(Err(new_resource.err), files, list,
                        NoResource, NoCall, << >>)
         ELSE LET new_fd == next_fd(files) IN
              SysResult(Ok(new_fd),
                        Append(files, ContextFile(new_fd, new_resource.res)),
                        list, new_resource.res, NoCall, << >>)

\* do_sys_open that numbers the new entry by the length of the table
sys_open_len(ctx, list, path_c, flags, answer) ==
    LET path == canonicalize(ctx.cwd, path_c)
        url == Url_from_str(path)
    IN  IF ~url.valid
        THEN SysResult(Err("EINVAL"), ctx.files, list, NoResource, NoCall,
                       << >>)
        ELSE LET r == Environment_open(list, url, flags, answer) IN
             IF ~r.ret.ok
             THEN SysResult(Err(r.ret.err), ctx.files, r.schemes,
                            NoResource, r.call, << >>)
             ELSE LET fd == Len(ctx.files) IN
                  SysResult(Ok(fd),
                            Append(ctx.files, ContextFile(fd, r.ret.res)),
                            r.schemes, r.ret.res, r.call, << >>)

\* do_sys_open
sys_open(ctx, list, path_c, flags, answer) ==
    LET path == canonicalize(ctx.cwd, path_c)
        url == Url_from_str(path)
    IN  IF ~url.valid
        THEN SysResult(Err("EINVAL"), ctx.files, list, NoResource, NoCall,
                       << >>)
        ELSE LET r == Environment_open(list, url, flags, answer) IN
             IF ~r.ret.ok
             THEN SysResult(Err(r.ret.err), ctx.files, r.schemes,
                            NoResource, r.call, << >>)
             ELSE LET fd == next_fd(ctx.files) IN
                  SysResult(Ok(fd),
                            Append(ctx.files, ContextFile(fd, r.ret.res)),
                            r.schemes, r.ret.res, r.call, << >>)

\* do_sys_pipe2 that reads next_fd() for both ends before pushing either
sys_pipe2_samefd(files, list, nonnull, p) ==
    IF nonnull
    THEN LET fd0 == next_fd(files)
             fd1 == next_fd(files)
             files1 == Append(files, ContextFile(fd0, PipeRead_new(p)))
             files2 == Append(files1, ContextFile(fd1, PipeWrite_new(p)))
         IN  SysResult(Ok(0), files2, list, NoResource, NoCall, <<fd0, fd1>>)
    ELSE SysResult(Err("EFAULT"), files, list, NoResource, NoCall, << >>)

\* do_sys_pipe2 that installs the write end before the read end
sys_pipe2_writefirst(files, list, nonnull, p) ==
    IF nonnull
    THEN LET fd0 == next_fd(files)
             files1 == Append(files, ContextFile(fd0, PipeWrite_new(p)))
             fd1 == next_fd(files1)
             files2 == Append(files1, ContextFile(fd1, PipeRead_new(p)))
         IN  SysResult(Ok(0), files2, list, NoResource, NoCall, <<fd0, fd1>>)
    ELSE SysResult(Err("EFAULT"), files, list, NoResource, NoCall, << >>)

\* do_sys_pipe2; nonnull is `fds as usize > 0`, p the new pipe
sys_pipe2(files, list, nonnull, p) ==
    IF nonnull
    THEN LET fd0 == next_fd(files)
             files1 == Append(files, ContextFile(fd0, PipeRead_new(p)))
             fd1 == next_fd(files1)
             files2 == Append(files1, ContextFile(fd1, PipeWrite_new(p)))
         IN  SysResult(Ok(0), files2, list, NoResource, NoCall, <<fd0, fd1>>)
    ELSE SysResult(Err("EFAULT"), files, list, NoResource, NoCall, << >>)

\* do_sys_read, do_sys_write: the resource's answer, or EBADF
sys_io(files, list, fd, answer) ==
    LET resource == get_file(files, fd) IN
    IF ~resource.ok
    THEN SysResult(Err(resource.err), files, list, NoResource, NoCall, << >>)
    ELSE SysResult(answer, files, list, resource.res, NoCall, << >>)

\* do_sys_lseek; the seek request the resource receives is recorded
SEEK_SET == 0
SEEK_CUR == 1
SEEK_END == 2

\* `offset as usize`: the isize reinterpreted in the width of a usize
as_usize(offset) == offset % (2 ^ UsizeBits)

\* the match on whence with SEEK_CUR and SEEK_END taken for each other
sys_lseek_request_swapped(offset, whence) ==
    CASE whence = SEEK_SET -> [kind |-> "Start", off |-> as_usize(offset)]
      [] whence = SEEK_CUR -> [kind |-> "End", off |-> offset]
      [] whence = SEEK_END -> [kind |-> "Current", off |-> offset]
      [] OTHER -> NoSeek

\* the match on whence: the request handed to Resource::seek, NoSeek for
\* the arm that returns EINVAL
sys_lseek_request(offset, whence) ==
    CASE whence = SEEK_SET -> [kind |-> "Start", off |-> as_usize(offset)]
      [] whence = SEEK_CUR -> [kind |-> "Current", off |-> offset]
      [] whence = SEEK_END -> [kind |-> "End", off |-> offset]
      [] OTHER -> NoSeek

\* do_sys_lseek that refuses a negative offset from the start
sys_lseek_checked(files, list, fd, offset, whence, answer) ==
    LET resource == get_file(files, fd) IN
    IF ~resource.ok
    THEN SysResult(Err(resource.err), files, list, NoResource, NoCall, << >>)
    ELSE IF sys_lseek_request(offset, whence) = NoSeek
            \/ (whence = SEEK_SET /\ offset < 0)
    THEN SysResult(Err("EINVAL"), files, list, NoResource, NoCall, << >>)
    ELSE [SysResult(answer, files, list, resource.res, NoCall, << >>)
             EXCEPT !.seek = sys_lseek_request(offset, whence)]

\* do_sys_lseek
sys_lseek(files, list, fd, offset, whence, answer) ==
    LET resource == get_file(files, fd) IN
    IF ~resource.ok
    THEN SysResult(Err(resource.err), files, list, NoResource, NoCall, << >>)
    ELSE IF sys_lseek_request(offset, whence) = NoSeek
    THEN SysResult(Err("EINVAL"), files, list, NoResource, NoCall, << >>)
    ELSE [SysResult(answer, files, list, resource.res, NoCall, << >>)
             EXCEPT !.seek = sys_lseek_request(offset, whence)]

----------------------------------------------------------------------------
(* The state machine *)

Last(op, ctx, path, flags, fd, r) ==
    [op |-> op, ctx |-> ctx, path |-> path, flags |-> flags, fd |-> fd,
     ret |-> r.ret, res |-> r.res, call |-> r.call, out |-> r.out,
     seek |-> r.seek]

NoSys == SysResult(Ok(0), << >>, << >>, NoResource, NoCall, << >>)

\* common::time::Duration
Duration(secs, nanos) == [secs |-> secs, nanos |-> nanos]

\* Rtc::new().time(): the wall clock read at boot
Rtc_time == Duration(60, 0)

\* what an entry to kernel() did: the PIC ports it wrote, in order, the
\* on_irq calls it made, in order, and whether it came back
Trap(vector, index, ports, calls, returned) ==
    [vector |-> vector, index |-> index, ports |-> ports, calls |-> calls,
     returned |-> returned, steps |-> << >>]
NoTrap == Trap(0, -1, << >>, << >>, TRUE)

\* the counting of an entry: the counters after it and the index used
\* into them, -1 when none is
Counted(counters, index) == [counters |-> counters, index |-> index]

\* the counting without the guard on the vector
count_entry_unguarded(counters, interrupt) ==
    Counted([counters EXCEPT ![interrupt] = @ + 1], interrupt)

\* the counting of the vectors below 0x80 only
count_entry_below_syscall(counters, interrupt) ==
    IF interrupt < 128
    THEN Counted([counters EXCEPT ![interrupt] = @ + 1], interrupt)
    ELSE Counted(counters, -1)

\* `if interrupt < 0xFF { interrupts[interrupt] += 1 }`
count_entry(counters, interrupt) ==
    IF interrupt < 255
    THEN Counted([counters EXCEPT ![interrupt] = @ + 1], interrupt)
    ELSE Counted(counters, -1)

\* a position in the code: the function, the place in it and the
\* arguments and locals the rest of the function reads
Frame(fn, at, i, path, flags) ==
    [fn |-> fn, at |-> at, i |-> i, path |-> path, flags |-> flags]
Pc(fn, at, i) == Frame(fn, at, i, << >>, 0)

\* the root context runs idle_loop; a spawned context runs its closure
RestPc(c) == IF c = 1 THEN Pc("idle_loop", "cli", 0)
             ELSE Pc("spawn", "entry", 0)

\* no code runs step by step: the flag of the scheduler, the interrupt
\* flag, the guards and the position stay
CpuIdle == UNCHANGED <<enabled, intr, held, pc>>

\* a transmit of the RTL8139: the card, the ports the address and the
\* length went to, the port polled, and the length written
Tx(base, tsad, tsd, poll, len) ==
    [base |-> base, tsad |-> tsad, tsd |-> tsd, poll |-> poll, len |-> len]
NoTx == Tx(0, 0, 0, 0, 0)

\* the driver between calls, with the sends it has done
Rtl(op, at, tx, sent) == [op |-> op, at |-> at, tx |-> tx, sent |-> sent]

\* no method of the RTL8139 driver runs
NetIdle == UNCHANGED <<RTL8139_TX, rtl8139>>

\* kernel() is not entered and no driver is called
TrapIdle ==
    /\ UNCHANGED <<clock_monotonic, clock_realtime, interrupts, ticks,
                   entries, trap>>
    /\ CpuIdle
    /\ NetIdle

\* a pipe that pipe2 has not made yet
NoPipe == [buf |-> << >>, fds |-> << >>]

\* no pipe is read, written or made
PipeIdle == UNCHANGED pipes

Init ==
    /\ booted = FALSE
    /\ schemes = << >>
    /\ contexts = << >>
    /\ current = 0
    /\ last = Last("none", 0, << >>, 0, 0, NoSys)
    /\ closedFds = << >>
    /\ dupPairs = << >>
    /\ pipes = [p \in 1..MaxPipes |-> NoPipe]
    /\ clock_monotonic = Duration(0, 0)
    /\ clock_realtime = Duration(0, 0)
    /\ interrupts = [v \in 0..255 |-> 0]
    /\ ticks = 0
    /\ entries = 0
    /\ trap = NoTrap
    /\ enabled = FALSE
    /\ intr = FALSE
    /\ held = << >>
    /\ pc = <<Pc("kernel", "entry", 0)>>
    /\ RTL8139_TX = 0
    /\ rtl8139 = Rtl("none", "idle", NoTx, << >>)

\* kernel(0xFF): init(), which leaves the root context running idle_loop
KernelInit(acpi, npci) ==
    /\ ~booted
    /\ booted' = TRUE
    /\ schemes' = init_schemes(acpi, npci)
    /\ contexts' = <<Context("kidle"), Context("karp"), Context("kicmp"),
                     Context("kinit")>>
    /\ current' = 1
    /\ last' = Last("init", 0, << >>, 0, 0, NoSys)
    /\ closedFds' = <<{}, {}, {}, {}>>
    /\ dupPairs' = <<{}, {}, {}, {}>>
    /\ clock_realtime' = Rtc_time
    /\ entries' = entries + 1
    /\ interrupts' = count_entry(interrupts, 255).counters
    /\ trap' = Trap(255, count_entry(interrupts, 255).index, << >>, << >>,
                    FALSE)
    /\ enabled' = TRUE
    /\ pc' = [c \in 1..4 |-> RestPc(c)]
    /\ UNCHANGED <<clock_monotonic, ticks, intr, held>>
    /\ NetIdle

\* the context context_switch runs next: the first one after `from`, in
\* round-robin order, that is neither blocked nor gone; `from` when the
\* scheduler is not enabled or no other context can run
RECURSIVE next_runnable(_, _, _, _)
next_runnable(list, on, from, k) ==
    LET i == ((from + k - 1) % Len(list)) + 1 IN
    IF ~on \/ k >= Len(list) THEN from
    ELSE IF ~list[i].blocked /\ ~list[i].exited THEN i
    ELSE next_runnable(list, on, from, k + 1)

\* context_switch(), called from the context `current`
context_switch(list) ==
    /\ current' = next_runnable(list, enabled, current, 1)
    /\ last' = Last("switch", current, << >>, 0, 0, NoSys)

\* context_switch: round-robin to the successor of the current context
ContextSwitch ==
    /\ booted
    /\ context_switch(contexts)
    /\ UNCHANGED <<booted, schemes, contexts, closedFds, dupPairs>>

\* a file syscall of the current context c whose outcome is r
Syscall(op, c, path, flags, fd, r) ==
    /\ booted
    /\ current_ok
    /\ current = c
    /\ ~contexts[c].exited
    /\ \A i \in 1..Len(r.files) : r.files[i].fd <= MaxFd
    /\ contexts' = [contexts EXCEPT ![c].files = r.files]
    /\ schemes' = r.schemes
    /\ last' = Last(op, c, path, flags, fd, r)
    /\ UNCHANGED <<booted, current>>

do_sys_open(c, path_c, flags, answer) ==
    Syscall("open", c, path_c, flags, 0,
            sys_open(contexts[c], schemes, path_c, flags, answer))

do_sys_close(c, fd) ==
    Syscall("close", c, << >>, 0, fd,
            sys_close(contexts[c].files, schemes, fd))

do_sys_dup(c, fd, answer) ==
    Syscall("dup", c, << >>, 0, fd,
            sys_dup(contexts[c].files, schemes, fd, answer))

do_sys_pipe2(c, nonnull) ==
    \E p \in 1..MaxPipes :
        /\ p \notin LivePipes
        /\ \A q \in 1..MaxPipes : q < p => q \in LivePipes
        /\ Syscall("pipe2", c, IF nonnull THEN << >> ELSE <<NULLPTR>>, 0, 0,
                   sys_pipe2(contexts[c].files, schemes, nonnull, p))

do_sys_read(c, fd, answer) ==
    Syscall("read", c, << >>, 0, fd,
            sys_io(contexts[c].files, schemes, fd, answer))

do_sys_write(c, fd, answer) ==
    Syscall("write", c, << >>, 0, fd,
            sys_io(contexts[c].files, schemes, fd, answer))

do_sys_lseek(c, fd, offset, whence, answer) ==
    Syscall("lseek", c, << >>, whence, fd,
            sys_lseek(contexts[c].files, schemes, fd, offset, whence, answer))

\* a call of one of the Environment's routing operations on a parsed url
\* by kernel code that keeps the result to itself
EnvCall(op, path, flags, r) ==
    /\ booted
    /\ Url_from_str(path).valid
    /\ schemes' = r.schemes
    /\ last' = Last(op, 0, path, flags, 0, r)
    /\ UNCHANGED <<booted, contexts, current, closedFds, dupPairs>>

EnvOpen(path, flags, answer) ==
    LET r == Environment_open(schemes, Url_from_str(path), flags, answer) IN
    EnvCall("Environment.open", path, flags,
            SysResult(IF r.ret.ok THEN Ok(0) ELSE Err(r.ret.err), << >>,
                      r.schemes, r.ret.res, r.call, << >>))

EnvUnit(op, path, flags, r) ==
    EnvCall(op, path, flags,
            SysResult(r.ret, << >>, r.schemes, NoResource, r.call, << >>))

EnvMkdir(path, flags, answer) ==
    EnvUnit("Environment.mkdir", path, flags,
            Environment_mkdir(schemes, Url_from_str(path), answer))

EnvRmdir(path, answer) ==
    EnvUnit("Environment.rmdir", path, 0,
            Environment_rmdir(schemes, Url_from_str(path), answer))

EnvStat(path, answer) ==
    EnvUnit("Environment.stat", path, 0,
            Environment_stat(schemes, Url_from_str(path), answer))

EnvUnlink(path, answer) ==
    EnvUnit("Environment.unlink", path, 0,
            Environment_unlink(schemes, Url_from_str(path), answer))

\* the history of the caller's fds, kept along a syscall step
History ==
    LET c == last'.ctx
        allocated == Fds(contexts'[c].files) \ Fds(contexts[c].files)
        closed == IF last'.op = "close" /\ last'.ret.ok THEN {last'.fd}
                  ELSE {}
        dupped == IF last'.op = "dup" /\ last'.ret.ok
                  THEN {<<last'.fd, last'.ret.val>>} ELSE {}
    IN  /\ closedFds' = [closedFds EXCEPT ![c] = (@ \cup closed) \ allocated]
        /\ dupPairs' = [dupPairs EXCEPT
                           ![c] = {p \in @ : p[2] \notin closed} \cup dupped]

NoHistory == UNCHANGED <<closedFds, dupPairs>>

----------------------------------------------------------------------------
(* Inputs *)

\* the machine of the file-table runs: ACPI present, every PCI device found
Acpi == TRUE

\* kinit, whose closure calls do_sys_chdir and do_sys_open
Kinit == 4
\* kicmp
Kicmp == 3

FilePaths ==
    {<<"debug", COLON>>, <<"custom", COLON>>, <<BADBYTES>>}

RegPaths ==
    {<<COLON, "custom">>, <<"custom", COLON>>,
     <<"custom", COLON, SLASH, "x">>}

EnvPaths ==
    {<<COLON>>, <<COLON, SLASH>>, <<COLON, "custom">>,
     <<COLON, SLASH, "custom">>, <<"custom", COLON>>,
     <<"custom", COLON, SLASH, "x">>, <<"debug", COLON>>,
     <<COLON, "debug">>, <<"nosuch", COLON>>}

Flags == {0, O_CREAT}
EnvFlags == {0, O_CREAT, O_CREAT + 1}
ProviderAnswers == {"ok", "ENOENT"}
DupAnswers == {"ok", "EINVAL"}
IoAnswers == {Ok(1), Err("EINVAL")}
SeekAnswers == {Ok(0), Err("ESPIPE")}
Whences == {SEEK_SET, SEEK_CUR, SEEK_END, 3}
Offsets == {-1, 0, 1}

----------------------------------------------------------------------------
(* Spec: the file table of one context under every file-descriptor syscall *)

FileSyscalls ==
    \/ \E p \in FilePaths, f \in Flags, a \in ProviderAnswers :
           do_sys_open(Kinit, p, f, a)
    \/ \E fd \in 0..MaxFd : do_sys_close(Kinit, fd)
    \/ \E fd \in 0..MaxFd, a \in DupAnswers : do_sys_dup(Kinit, fd, a)
    \/ \E nonnull \in BOOLEAN : do_sys_pipe2(Kinit, nonnull)
    \/ \E fd \in 0..MaxFd, a \in IoAnswers : do_sys_read(Kinit, fd, a)
    \/ \E fd \in 0..MaxFd, a \in IoAnswers : do_sys_write(Kinit, fd, a)
    \/ \E fd \in 0..MaxFd, w \in Whences, a \in SeekAnswers :
           do_sys_lseek(Kinit, fd, 0, w, a)

Next ==
    \/ KernelInit(Acpi, MaxPciDevices) /\ PipeIdle
    \/ ContextSwitch /\ PipeIdle /\ TrapIdle
    \/ FileSyscalls /\ History /\ PipeIdle /\ TrapIdle

Spec == Init /\ [][Next]_vars

(* SpecEnv: the scheme list under the Environment's routing operations,   *)
(* on every machine                                                       *)

NextEnv ==
    \/ \E acpi \in BOOLEAN, npci \in 0..MaxPciDevices :
           KernelInit(acpi, npci) /\ PipeIdle
    \/ \E p \in EnvPaths, f \in EnvFlags, a \in ProviderAnswers :
           EnvOpen(p, f, a) /\ PipeIdle /\ TrapIdle
    \/ \E p \in EnvPaths, a \in ProviderAnswers :
           EnvMkdir(p, 0, a) /\ PipeIdle /\ TrapIdle
    \/ \E p \in EnvPaths, a \in ProviderAnswers :
           EnvRmdir(p, a) /\ PipeIdle /\ TrapIdle
    \/ \E p \in EnvPaths, a \in ProviderAnswers :
           EnvStat(p, a) /\ PipeIdle /\ TrapIdle
    \/ \E p \in EnvPaths, a \in ProviderAnswers :
           EnvUnlink(p, a) /\ PipeIdle /\ TrapIdle

SpecEnv == Init /\ [][NextEnv]_vars

(* SpecReg: two contexts registering and opening a scheme by syscall *)

RegSyscalls ==
    \/ \E c \in {Kicmp, Kinit}, p \in RegPaths, f \in Flags,
          a \in ProviderAnswers : do_sys_open(c, p, f, a)
    \/ \E c \in {Kicmp, Kinit}, fd \in 0..MaxFd : do_sys_close(c, fd)

NextReg ==
    \/ KernelInit(Acpi, MaxPciDevices) /\ PipeIdle
    \/ ContextSwitch /\ PipeIdle /\ TrapIdle
    \/ RegSyscalls /\ NoHistory /\ PipeIdle /\ TrapIdle

SpecReg == Init /\ [][NextReg]_vars

----------------------------------------------------------------------------
(* The file table: C1, C7, C8, C9, C10, checked under Spec *)

Files(c) == contexts[c].files
IoOps == {"read", "write", "lseek"}

\* the other contexts and the scheme list are left alone by a step
OnlyFilesOf(c) ==
    /\ \A d \in 1..Len(contexts) : d # c => contexts'[d] = contexts[d]
    /\ contexts'[c].cwd = contexts[c].cwd
    /\ Len(contexts') = Len(contexts)

\* C1: in every reachable state the fds of each context's file table are
\* pairwise distinct.
C1_FdsDistinct ==
    \A c \in 1..Len(contexts) :
        \A i, j \in 1..Len(Files(c)) :
            i # j => Files(c)[i].fd # Files(c)[j].fd

\* a table filled by an open, a pipe2 and closes in between
C1_Witness ==
    /\ last.op = "pipe2" /\ last.ret.ok
    /\ Len(Files(Kinit)) = 3
    /\ Files(Kinit)[1].resource.kind = "file"
    /\ closedFds[Kinit] = {}

\* C7: a read, write or lseek on an fd that was closed and not allocated
\* again since returns EBADF.
C7_ClosedFdIsBad ==
    (last.op \in IoOps /\ last.fd \in closedFds[last.ctx])
        => last.ret = Err("EBADF")

\* a read of a closed fd while other fds of the table stay open
C7_Witness ==
    /\ last.op = "read"
    /\ last.fd \in closedFds[last.ctx]
    /\ last.ret = Err("EBADF")
    /\ Files(last.ctx) # << >>
    /\ \E e \in Fds(Files(last.ctx)) : e > last.fd

\* C8: close(fd) removes exactly the entry with that fd, keeps every other
\* entry and their order and returns 0; without such an entry it returns
\* EBADF and changes nothing.
C8_CloseFrame ==
    [][last'.op = "close" =>
        LET c == last'.ctx
            fd == last'.fd
            old == contexts[c].files
            new == contexts'[c].files
        IN  /\ OnlyFilesOf(c)
            /\ schemes' = schemes
            /\ IF fd \in Fds(old)
               THEN /\ last'.ret = Ok(0)
                    /\ Len(new) = Len(old) - 1
                    /\ \E i \in 1..Len(old) :
                           /\ old[i].fd = fd
                           /\ \A j \in 1..Len(new) :
                                  new[j] = IF j < i THEN old[j]
                                           ELSE old[j + 1]
               ELSE /\ last'.ret = Err("EBADF")
                    /\ new = old]_vars

\* the middle entry of a full table has been closed
C8_Witness ==
    /\ last.op = "close" /\ last.ret = Ok(0) /\ last.fd = 1
    /\ Fds(Files(last.ctx)) = {0, 2}

\* C9: a successful open appends the one entry {next_fd(), resource} and
\* returns that fd; a failed open (unparsable URL, error of
\* Environment.open) returns the error and leaves the table alone.
C9_OpenAppends ==
    [][last'.op = "open" =>
        LET c == last'.ctx
            old == contexts[c].files
            new == contexts'[c].files
            fd == IF old = << >> THEN 0
                  ELSE 1 + SetMax({old[i].fd : i \in 1..Len(old)})
        IN  /\ OnlyFilesOf(c)
            /\ IF last'.ret.ok
               THEN /\ new = old \o <<[fd |-> fd, resource |-> last'.res]>>
                    /\ last'.ret.val = fd
                    /\ last'.res # NoResource
               ELSE /\ new = old
                    /\ last'.ret.err # "none"
            /\ ~Url_from_str(canonicalize(contexts[c].cwd, last'.path)).valid
                   => last'.ret = Err("EINVAL")
            /\ (last'.call.provider # 0 /\ last'.call.answer # "ok")
                   => last'.ret = Err(last'.call.answer)]_vars

\* an open into a table with a gap below its largest fd
C9_Witness ==
    /\ last.op = "open" /\ last.ret = Ok(2)
    /\ Fds(Files(last.ctx)) = {1, 2}

\* C10: dup(fd) appends the dup() of fd's resource under an fd that is new
\* to the table and keeps the original entry; the duplicate stays in the
\* table, and read, write and lseek find it, whatever happens to the
\* original fd afterwards.
C10_DupSurvivesClose ==
    /\ [][(last'.op = "dup" /\ last'.ret.ok) =>
            LET c == last'.ctx
                old == contexts[c].files
                new == contexts'[c].files
                n == last'.ret.val
            IN  /\ OnlyFilesOf(c)
                /\ n \notin Fds(old)
                /\ Len(new) = Len(old) + 1
                /\ SubSeq(new, 1, Len(old)) = old
                /\ new[Len(new)].fd = n
                /\ \E i \in 1..Len(old) :
                       /\ old[i].fd = last'.fd
                       /\ new[Len(new)].resource =
                              [old[i].resource EXCEPT !.dup = TRUE]]_vars
    /\ [](\A c \in 1..Len(dupPairs) : \A p \in dupPairs[c] :
              \E i \in 1..Len(Files(c)) :
                  /\ Files(c)[i].fd = p[2]
                  /\ Files(c)[i].resource.dup)
    /\ []((last.op \in IoOps
             /\ \E p \in dupPairs[last.ctx] : p[2] = last.fd)
          => last.ret # Err("EBADF"))

\* a read of the duplicate after the original fd has been closed
C10_Witness ==
    /\ last.op = "read" /\ last.ret.ok
    /\ last.res.dup
    /\ \E p \in dupPairs[last.ctx] :
           /\ p[2] = last.fd
           /\ p[1] \in closedFds[last.ctx]
           /\ p[1] \notin Fds(Files(last.ctx))

----------------------------------------------------------------------------
(* The scheme list: C2, C3, C4, C6 under SpecEnv, C5 under SpecReg *)

EnvOps ==
    {"Environment.open", "Environment.mkdir", "Environment.rmdir",
     "Environment.stat", "Environment.unlink"}

\* the positions of the schemes registered under a name
Named(list, name) == {i \in 1..Len(list) : list[i].name = name}
SetMin(S) == CHOOSE m \in S : \A n \in S : m <= n

\* a routing step: the first scheme named `name` is the one called, and its
\* answer is the result; without such a scheme ENOENT and no call
Routed(name) ==
    LET M == Named(schemes, name) IN
    /\ schemes' = schemes
    /\ IF M # {}
       THEN /\ last'.call.provider = SetMin(M)
            /\ IF last'.call.answer = "ok"
               THEN /\ last'.ret = Ok(0)
                    /\ last'.op = "Environment.open" =>
                           /\ last'.res.kind = "file"
                           /\ last'.res.obj = name
               ELSE /\ last'.ret = Err(last'.call.answer)
                    /\ last'.res = NoResource
       ELSE /\ last'.call = NoCall
            /\ last'.ret = Err("ENOENT")
            /\ last'.res = NoResource

\* C2: in every reachable state no two entries of the scheme list have the
\* same non-empty name.
C2_UniqueNames ==
    \A i, j \in 1..Len(schemes) :
        (i # j /\ schemes[i].name # << >>)
            => schemes[i].name # schemes[j].name

\* a registration refused with EEXIST next to one that went through
C2_Witness ==
    /\ last.op = "Environment.open"
    /\ last.ret = Err("EEXIST")
    /\ \E i \in 1..Len(schemes) : schemes[i].kind = "Scheme"

RECURSIVE C6_Join(_)
C6_Join(names) ==
    IF names = << >> THEN << >>
    ELSE IF Len(names) = 1 THEN names[1]
    ELSE names[1] \o <<NEWLINE>> \o C6_Join(Tail(names))

C6_Names(list) ==
    LET named == SelectSeq(list, LAMBDA k : k.name # << >>) IN
    [i \in 1..Len(named) |-> named[i].name]

\* C6: Environment.open with an empty scheme and a reference that is empty
\* after stripping '/', for any flags, returns the non-empty scheme names
\* in registration order joined by single newlines, without a leading or
\* trailing newline, and leaves the scheme list unchanged; the schemes
\* debug, initfs, memory give "debug\ninitfs\nmemory".
C6_RootListing ==
    /\ [][LET url == Url_from_str(last'.path) IN
          (/\ last'.op = "Environment.open"
           /\ url.scheme = << >>
           /\ trim_matches(url.reference) = << >>)
          => /\ last'.ret.ok
             /\ last'.res.kind = "list"
             /\ last'.res.obj = C6_Join(C6_Names(schemes))
             /\ last'.res.obj # << >> =>
                    /\ Head(last'.res.obj) # NEWLINE
                    /\ last'.res.obj[Len(last'.res.obj)] # NEWLINE
             /\ \A i \in 1..(Len(last'.res.obj) - 1) :
                    ~(last'.res.obj[i] = NEWLINE
                        /\ last'.res.obj[i + 1] = NEWLINE)
             /\ schemes' = schemes]_vars
    /\ [](scheme_list(<<Builtin("DebugScheme"), Builtin("InitFsScheme"),
                        Builtin("MemoryScheme")>>, 1, << >>)
            = <<"debug", NEWLINE, "initfs", NEWLINE, "memory">>)

\* open(":/", O_CREAT) lists a scheme list that holds unnamed schemes and
\* one registered by a caller
C6_Witness ==
    /\ last.op = "Environment.open"
    /\ last.path = <<COLON, SLASH>>
    /\ last.flags = 512
    /\ last.res.kind = "list"
    /\ Len(last.res.obj) > 2
    /\ last.res.obj[Len(last.res.obj)] = "custom"
    /\ schemes[1].name = << >>

\* the scenario of C5 with `path` as the registration URL: the first
\* open(path, O_CREAT) registers "custom" and returns its server, any
\* later one fails with EEXIST, and open("custom:/x", 0) is routed to the
\* registered scheme
C5_Scenario(path) ==
    LET M == Named(schemes, <<"custom">>) IN
    /\ (last'.op = "open" /\ last'.path = path /\ last'.flags = 512)
       => IF M = {}
          THEN /\ last'.ret.ok
               /\ last'.res.kind = "server"
               /\ schemes' = Append(schemes, KScheme("Scheme", <<"custom">>))
               /\ \E i \in 1..Len(contexts'[last'.ctx].files) :
                      contexts'[last'.ctx].files[i]
                          = [fd |-> last'.ret.val, resource |-> last'.res]
          ELSE /\ last'.ret = Err("EEXIST")
               /\ schemes' = schemes
    /\ (/\ last'.op = "open"
        /\ last'.path = <<"custom", COLON, SLASH, "x">>
        /\ last'.flags = 0
        /\ M # {})
       => /\ last'.call.provider = SetMin(M)
          /\ schemes[last'.call.provider].kind = "Scheme"
          /\ schemes' = schemes

----------------------------------------------------------------------------
(* The descriptor dup returns: C11, checked under Spec *)

\* the smallest number that is no fd of the table
LowestUnused(files) ==
    CHOOSE n \in 0..Len(files) :
        /\ n \notin Fds(files)
        /\ \A m \in 0..(n - 1) : m \in Fds(files)

\* C11: the fd a successful dup returns is the smallest non-negative
\* integer that is no fd of the caller's table at the time of the call.
C11_DupLowestUnused ==
    [][(last'.op = "dup" /\ last'.ret.ok)
           => last'.ret.val = LowestUnused(contexts[last'.ctx].files)]_vars

----------------------------------------------------------------------------
(* lseek: C12, checked under SpecSeek *)

SeekSyscalls ==
    \/ \E f \in Flags, a \in ProviderAnswers :
           do_sys_open(Kinit, <<"debug", COLON>>, f, a)
    \/ \E fd \in 0..MaxFd : do_sys_close(Kinit, fd)
    \/ \E fd \in 0..MaxFd, o \in Offsets, w \in Whences, a \in SeekAnswers :
           do_sys_lseek(Kinit, fd, o, w, a)

NextSeek ==
    \/ KernelInit(Acpi, MaxPciDevices) /\ PipeIdle
    \/ ContextSwitch /\ PipeIdle /\ TrapIdle
    \/ SeekSyscalls /\ NoHistory /\ PipeIdle /\ TrapIdle

SpecSeek == Init /\ [][NextSeek]_vars

\* C12: lseek on an open fd hands Start(off), Current(off) or End(off) to
\* the resource's seek for whence 0, 1 or 2 (off taken as a usize for
\* Start) and returns the resource's result; any other whence returns
\* EINVAL and no seek request reaches the resource.
C12_LseekWhence ==
    /\ booted =>
         \A fd \in Fds(Files(Kinit)), o \in Offsets, w \in 0..4,
            a \in SeekAnswers :
             LET r == sys_lseek(Files(Kinit), schemes, fd, o, w, a) IN
             /\ r.files = Files(Kinit)
             /\ r.schemes = schemes
             /\ IF w \in {0, 1, 2}
                THEN /\ r.ret = a
                     /\ r.seek.kind
                            = <<"Start", "Current", "End">>[w + 1]
                     /\ r.seek.off = IF w # 0 \/ o >= 0 THEN o
                                     ELSE o + 2 ^ UsizeBits
                     /\ r.res = get_file(Files(Kinit), fd).res
                ELSE /\ r.ret = Err("EINVAL")
                     /\ r.seek.kind = "none"
    /\ (last.op = "lseek" /\ last.fd \in Fds(Files(last.ctx)))
         => IF last.flags \in {0, 1, 2}
            THEN last.seek.kind = <<"Start", "Current", "End">>[last.flags + 1]
                 /\ last.ret \in SeekAnswers
            ELSE last.seek.kind = "none" /\ last.ret = Err("EINVAL")

\* a seek back from the end that the resource refused
C12_Witness ==
    /\ last.op = "lseek" /\ last.flags = 2
    /\ last.seek = [kind |-> "End", off |-> -1]
    /\ last.ret = Err("ESPIPE")
    /\ Len(Files(last.ctx)) = 2

----------------------------------------------------------------------------
(* Null user pointers: C13, checked under SpecNull *)

\* c_string_to_str(ptr): the string at ptr; what a null ptr yields is not
\* fixed by the callers, so every outcome is taken
NullReads == {<< >>, <<BADBYTES>>}
c_string_to_str(ptr) == IF ptr = <<NULLPTR>> THEN NullReads ELSE {ptr}

\* do_sys_fstat
sys_fstat(files, list, fd, stat, answer) ==
    LET resource == get_file(files, fd) IN
    IF ~resource.ok
    THEN SysResult(Err(resource.err), files, list, NoResource, NoCall, << >>)
    ELSE IF stat # <<NULLPTR>>
    THEN SysResult(answer, files, list, resource.res, NoCall, << >>)
    ELSE SysResult(Err("EFAULT"), files, list, NoResource, NoCall, << >>)

do_sys_fstat(c, fd, stat, answer) ==
    Syscall("fstat", c, stat, 0, fd,
            sys_fstat(contexts[c].files, schemes, fd, stat, answer))

\* do_sys_chdir that delegates: the scheme of the canonicalized path is
\* looked up, and a path no scheme serves is ENOENT and leaves the cwd
do_sys_chdir_delegate(c, path) ==
    /\ booted
    /\ current_ok
    /\ current = c
    /\ \E str \in c_string_to_str(path) :
           LET to == canonicalize(contexts[c].cwd, str)
               url == Url_from_str(to)
               served == url.valid /\ first_match(schemes, url.scheme, 1) # 0
           IN  /\ Len(to) <= MaxCwd
               /\ contexts' = [contexts EXCEPT
                                  ![c].cwd = IF served THEN to ELSE @]
               /\ last' = Last("chdir", c, path, 0, 0,
                               SysResult(IF served THEN Ok(0)
                                         ELSE Err("ENOENT"),
                                         << >>, << >>, NoResource, NoCall,
                                         << >>))
    /\ UNCHANGED <<booted, current, schemes>>

\* do_sys_chdir: the cwd becomes the canonicalized string, whatever it is
do_sys_chdir(c, path) ==
    /\ booted
    /\ current_ok
    /\ current = c
    /\ \E str \in c_string_to_str(path) :
           /\ Len(canonicalize(contexts[c].cwd, str)) <= MaxCwd
           /\ contexts' = [contexts EXCEPT
                              ![c].cwd = canonicalize(@, str)]
    /\ last' = Last("chdir", c, path, 0, 0, NoSys)
    /\ UNCHANGED <<booted, current, schemes>>

\* do_sys_read with the buffer pointer kept: the slice over buf is handed
\* to the resource unchecked
do_sys_read_buf(c, fd, buf, answer) ==
    Syscall("read", c, buf, 0, fd,
            sys_io(contexts[c].files, schemes, fd, answer))

\* do_sys_open with the path pointer kept
do_sys_open_ptr(c, path_c, flags, answer) ==
    \E str \in c_string_to_str(path_c) :
        Syscall("open", c, path_c, flags, 0,
                sys_open(contexts[c], schemes, str, flags, answer))

Pointers == {<<NULLPTR>>, <<"debug", COLON>>}

NullSyscalls ==
    \/ \E p \in Pointers, a \in ProviderAnswers :
           do_sys_open_ptr(Kinit, p, 0, a)
    \/ \E fd \in 0..MaxFd : do_sys_close(Kinit, fd)
    \/ \E p \in Pointers : do_sys_chdir(Kinit, p)
    \/ \E fd \in 0..MaxFd, p \in Pointers, a \in IoAnswers :
           do_sys_fstat(Kinit, fd, p, a)
    \/ \E fd \in 0..MaxFd, p \in Pointers, a \in IoAnswers :
           do_sys_read_buf(Kinit, fd, p, a)
    \/ \E nonnull \in BOOLEAN : do_sys_pipe2(Kinit, nonnull)

NextNull ==
    \/ KernelInit(Acpi, MaxPciDevices) /\ PipeIdle
    \/ ContextSwitch /\ PipeIdle /\ TrapIdle
    \/ NullSyscalls /\ NoHistory /\ PipeIdle /\ TrapIdle

SpecNull == Init /\ [][NextNull]_vars

\* C13: a file syscall given a null pointer where a path, a buffer, a stat
\* record or out_fds is required fails with EFAULT and changes neither
\* the file table, nor the cwd, nor the scheme list.
C13_NullIsEfault ==
    [][last'.path = <<NULLPTR>>
           => /\ last'.ret = Err("EFAULT")
              /\ contexts' = contexts
              /\ schemes' = schemes]_vars

----------------------------------------------------------------------------
(* pipe2: C14, checked under Spec *)

\* C14: pipe2 with non-null out_fds appends the read end and then the
\* write end of one new pipe, stores their fds in out_fds[0] and
\* out_fds[1], both new to the table and different, and returns 0; with
\* null out_fds it returns EFAULT and leaves the table alone.
C14_Pipe2 ==
    [][last'.op = "pipe2" =>
        LET c == last'.ctx
            old == contexts[c].files
            new == contexts'[c].files
            n == Len(old)
        IN  /\ OnlyFilesOf(c)
            /\ schemes' = schemes
            /\ IF last'.path # <<NULLPTR>>
               THEN /\ last'.ret = Ok(0)
                    /\ Len(new) = n + 2
                    /\ SubSeq(new, 1, n) = old
                    /\ new[n + 1].resource.kind = "piperead"
                    /\ new[n + 2].resource.kind = "pipewrite"
                    /\ new[n + 1].resource.pipe = new[n + 2].resource.pipe
                    /\ \A d \in 1..Len(contexts) :
                           \A i \in 1..Len(contexts[d].files) :
                               contexts[d].files[i].resource.pipe
                                   # new[n + 1].resource.pipe
                    /\ last'.out = <<new[n + 1].fd, new[n + 2].fd>>
                    /\ new[n + 1].fd # new[n + 2].fd
                    /\ {new[n + 1].fd, new[n + 2].fd} \cap Fds(old) = {}
               ELSE /\ last'.ret = Err("EFAULT")
                    /\ last'.out = << >>
                    /\ new = old]_vars

\* a pipe made by a context whose table holds one file
C14_Witness ==
    /\ last.op = "pipe2" /\ last.ret = Ok(0)
    /\ last.out = <<1, 2>>
    /\ Files(last.ctx)[1].fd = 0
    /\ Files(last.ctx)[2].resource.kind = "piperead"
    /\ Files(last.ctx)[3].resource.kind = "pipewrite"

----------------------------------------------------------------------------
(* Pipes: C15, checked under SpecPipe *)

\* some file table holds an end of this kind of pipe p
PipeHasEnd(kind, p) ==
    \E c \in 1..Len(contexts) : \E i \in 1..Len(contexts[c].files) :
        /\ contexts[c].files[i].resource.kind = kind
        /\ contexts[c].files[i].resource.pipe = p

PipeResult(block, ret, out, buf) ==
    [block |-> block, ret |-> ret, out |-> out, buf |-> buf]

Min(a, b) == IF a <= b THEN a ELSE b

\* PipeRead::read into a buffer of count bytes: the oldest bytes; 0 from
\* an empty pipe no write end is left of; else the reader waits
PipeRead_read(buf, writers, count) ==
    IF buf # << >>
    THEN LET n == Min(count, Len(buf)) IN
         PipeResult(FALSE, Ok(n), SubSeq(buf, 1, n),
                    SubSeq(buf, n + 1, Len(buf)))
    ELSE IF ~writers THEN PipeResult(FALSE, Ok(0), << >>, buf)
    ELSE PipeResult(TRUE, Ok(0), << >>, buf)

\* PipeWrite::write: EPIPE when no read end is left; the bytes go behind
\* the buffered ones; the writer waits while they do not fit
PipeWrite_write(buf, readers, data) ==
    IF ~readers THEN PipeResult(FALSE, Err("EPIPE"), << >>, buf)
    ELSE IF Len(buf) + Len(data) > MaxBuf
    THEN PipeResult(TRUE, Ok(0), << >>, buf)
    ELSE PipeResult(FALSE, Ok(Len(data)), << >>, buf \o data)

\* what a read or a write did: the syscall's result, the pipes after it,
\* and whether the caller is kept waiting in the resource
IoResult(r, ps, block) == [r |-> r, pipes |-> ps, block |-> block]

\* do_sys_read on a table that may hold pipe ends
sys_read(files, list, ps, fd, count, answer) ==
    LET resource == get_file(files, fd) IN
    IF ~resource.ok
    THEN IoResult(SysResult(Err(resource.err), files, list, NoResource,
                            NoCall, << >>), ps, FALSE)
    ELSE IF resource.res.kind = "piperead"
    THEN LET p == resource.res.pipe
             pr == PipeRead_read(ps[p].buf, PipeHasEnd("pipewrite", p),
                                 count)
         IN  IoResult(SysResult(pr.ret, files, list, resource.res, NoCall,
                                pr.out),
                      [ps EXCEPT ![p].buf = pr.buf], pr.block)
    ELSE IoResult(SysResult(answer, files, list, resource.res, NoCall,
                            << >>), ps, FALSE)

\* do_sys_write on a table that may hold pipe ends
sys_write(files, list, ps, fd, data, answer) ==
    LET resource == get_file(files, fd) IN
    IF ~resource.ok
    THEN IoResult(SysResult(Err(resource.err), files, list, NoResource,
                            NoCall, << >>), ps, FALSE)
    ELSE IF resource.res.kind = "pipewrite"
    THEN LET p == resource.res.pipe
             pw == PipeWrite_write(ps[p].buf, PipeHasEnd("piperead", p),
                                   data)
         IN  IoResult(SysResult(pw.ret, files, list, resource.res, NoCall,
                                << >>),
                      [ps EXCEPT ![p].buf = pw.buf], pw.block)
    ELSE IoResult(SysResult(answer, files, list, resource.res, NoCall,
                            << >>), ps, FALSE)

do_sys_read_pipe(c, fd, count, answer) ==
    LET io == sys_read(contexts[c].files, schemes, pipes, fd, count, answer)
    IN  /\ Syscall("read", c, << >>, count, fd, io.r)
        /\ ~io.block
        /\ pipes' = io.pipes

do_sys_write_pipe(c, fd, data, answer) ==
    LET io == sys_write(contexts[c].files, schemes, pipes, fd, data, answer)
    IN  /\ Syscall("write", c, data, 0, fd, io.r)
        /\ ~io.block
        /\ pipes' = io.pipes

\* do_sys_pipe2 with the new pipe's buffer and the fds stored in out_fds
do_sys_pipe2_buf(c) ==
    /\ do_sys_pipe2(c, TRUE)
    /\ pipes' = [pipes EXCEPT
                    ![contexts'[c].files[Len(contexts'[c].files)]
                          .resource.pipe]
                        = [buf |-> << >>, fds |-> last'.out]]

Datas == {<<"a">>, <<"b">>, <<"a", "b">>}
Counts == {1, 2}

PipeSyscalls ==
    \/ do_sys_pipe2_buf(Kinit)
    \/ \E fd \in 0..MaxFd : do_sys_close(Kinit, fd) /\ PipeIdle
    \/ /\ booted
       /\ \E fd \in Fds(Files(Kinit)), n \in Counts :
              do_sys_read_pipe(Kinit, fd, n, Ok(1))
    \/ /\ booted
       /\ \E fd \in Fds(Files(Kinit)), d \in Datas :
              do_sys_write_pipe(Kinit, fd, d, Ok(1))

NextPipe ==
    \/ KernelInit(Acpi, MaxPciDevices) /\ PipeIdle
    \/ ContextSwitch /\ PipeIdle /\ TrapIdle
    \/ PipeSyscalls /\ History /\ TrapIdle

SpecPipe == Init /\ [][NextPipe]_vars

\* the table of context c holds, under fd, the `kind` end of pipe p
HoldsEnd(c, fd, kind, p) ==
    \E i \in 1..Len(contexts[c].files) :
        /\ contexts[c].files[i].fd = fd
        /\ contexts[c].files[i].resource.kind = kind
        /\ contexts[c].files[i].resource.pipe = p

\* C15: for the pipe pipe2 stored in out_fds as fds: a write to fds[1]
\* appends its bytes, and after close(fds[0]) returns EPIPE; a read on
\* fds[0] delivers the oldest buffered bytes in order, and once fds[1] is
\* closed and the buffer is empty it returns 0 and does not wait.
C15_PipeEofAndEpipe ==
    /\ [][\A p \in 1..MaxPipes :
            LET c == last'.ctx
                fds == pipes[p].fds
                buf == pipes[p].buf
            IN  /\ (/\ last'.op = "write" /\ fds # << >>
                    /\ last'.fd = fds[2]
                    /\ HoldsEnd(c, fds[2], "pipewrite", p))
                   => /\ fds[1] \in closedFds[c]
                         => /\ last'.ret = Err("EPIPE")
                            /\ pipes' = pipes
                      /\ HoldsEnd(c, fds[1], "piperead", p)
                         => /\ last'.ret = Ok(Len(last'.path))
                            /\ pipes'[p].buf = buf \o last'.path
                /\ (/\ last'.op = "read" /\ fds # << >>
                    /\ last'.fd = fds[1]
                    /\ HoldsEnd(c, fds[1], "piperead", p))
                   => /\ last'.ret = Ok(Len(last'.out))
                      /\ buf = last'.out \o pipes'[p].buf
                      /\ Len(last'.out) = Min(last'.flags, Len(buf))
                      /\ buf = << >>
                         => ~HoldsEnd(c, fds[2], "pipewrite", p)]_vars
    /\ [](\A p \in 1..MaxPipes :
            (/\ booted /\ pipes[p].fds # << >>
             /\ HoldsEnd(Kinit, pipes[p].fds[1], "piperead", p)
             /\ pipes[p].fds[2] \in closedFds[Kinit]
             /\ pipes[p].buf = << >>)
            => \A n \in Counts :
                   LET io == sys_read(Files(Kinit), schemes, pipes,
                                      pipes[p].fds[1], n, Ok(1))
                   IN  ~io.block /\ io.r.ret = Ok(0))

\* the second read after the writer wrote and closed fds[1]: end of file
C15_Witness ==
    /\ last.op = "read" /\ last.ret = Ok(0)
    /\ last.res.kind = "piperead"
    /\ pipes[1].fds = <<0, 1>>
    /\ last.fd = 0
    /\ 1 \in closedFds[last.ctx]
    /\ Fds(Files(last.ctx)) = {0}

----------------------------------------------------------------------------
(* The trap dispatcher: kernel() *)

NanosPerSec == 1000000000

\* Duration + Duration: the nanos carried into the secs
Duration_add(a, b) ==
    LET nanos == a.nanos + b.nanos IN
    Duration(a.secs + b.secs + (nanos \div NanosPerSec),
             nanos % NanosPerSec)

\* a PIT interval shortened to whole microseconds
PIT_DURATION_micros == Duration(0, 4500000)

PIT_DURATION == Duration(0, 4500572)

\* Pio::<u8>::new(port).write(byte)
Pio(port, byte) == [port |-> port, byte |-> byte]

\* the end-of-interrupt writes with the slave PIC taken to start at 0x29
eoi_slave_above(interrupt) ==
    IF interrupt >= 32 /\ interrupt < 48
    THEN (IF interrupt > 40 THEN <<Pio(160, 32)>> ELSE << >>)
         \o <<Pio(32, 32)>>
    ELSE << >>

\* the end-of-interrupt writes at the end of kernel()
eoi(interrupt) ==
    IF interrupt >= 32 /\ interrupt < 48
    THEN (IF interrupt >= 40 THEN <<Pio(160, 32)>> ELSE << >>)
         \o <<Pio(32, 32)>>
    ELSE << >>

\* the loop of Environment::on_irq, run with the schemes lock in `lock`
RECURSIVE on_irq_loop(_, _, _, _, _)
on_irq_loop(list, irq, i, lock, acc) ==
    IF i > Len(list) THEN acc
    ELSE on_irq_loop(list, irq, i + 1, lock,
             Append(acc, [scheme |-> i, irq |-> irq, locked |-> lock]))

\* the fan-out to the schemes that have a name only
Environment_on_irq_named(list, irq) ==
    SelectSeq(on_irq_loop(list, irq, 1, TRUE, << >>),
              LAMBDA call : list[call.scheme].name # << >>)

\* Environment::on_irq: the lock guard lives as long as the loop
Environment_on_irq(list, irq) == on_irq_loop(list, irq, 1, TRUE, << >>)

\* syscall_handle(regs): the file syscall regs.ax names
syscall_handle ==
    \E c \in 1..Len(contexts) :
        \/ \E a \in ProviderAnswers :
               do_sys_open(c, <<"debug", COLON>>, 0, a)
        \/ do_sys_open(c, <<COLON, "custom">>, O_CREAT, "ok")
        \/ \E fd \in 0..MaxFd : do_sys_close(c, fd)

\* do_sys_exit(status) of the current context: the context is destroyed,
\* its resources are dropped, and another context is switched to
do_sys_exit ==
    /\ contexts' = [contexts EXCEPT ![current].files = << >>,
                                    ![current].exited = TRUE]
    /\ context_switch(contexts')

\* the arm of `match interrupt` that takes the vector, with every vector
\* from 0x20 to 0x2F and above taken as an IRQ
arm_irq_wide(interrupt) ==
    IF interrupt = 32 THEN "tick"
    ELSE IF interrupt = 128 THEN "syscall"
    ELSE IF interrupt = 255 THEN "init"
    ELSE IF interrupt >= 33 THEN "irq"
    ELSE "exception"

\* the arm of `match interrupt` that takes the vector
arm(interrupt) ==
    IF interrupt = 32 THEN "tick"
    ELSE IF interrupt \in 33..47 THEN "irq"
    ELSE IF interrupt = 128 THEN "syscall"
    ELSE IF interrupt = 255 THEN "init"
    ELSE "exception"

\* the steps of the 0x20 arm with the end of interrupt sent before the
\* switch
tick_steps_eoi_first(has_current) ==
    <<"clock_monotonic", "clock_realtime">>
    \o (IF has_current THEN <<"time">> ELSE << >>)
    \o <<"eoi", "context_switch">>

\* the steps of the 0x20 arm and of the end of kernel(), in program order
tick_steps(has_current) ==
    <<"clock_monotonic", "clock_realtime">>
    \o (IF has_current THEN <<"time">> ELSE << >>)
    \o <<"context_switch", "eoi">>

\* `current.time += 1` on Ok(current) of current_mut()
tick_time(list, cur) ==
    IF cur = 0 THEN list ELSE [list EXCEPT ![cur].time = @ + 1]

\* kernel(interrupt, regs) after boot
kernel(interrupt) ==
    /\ booted
    /\ interrupt # 255
    /\ entries' = entries + 1
    /\ interrupts' = count_entry(interrupts, interrupt).counters
    /\ \/ /\ arm(interrupt) = "tick"
          /\ clock_monotonic' = Duration_add(clock_monotonic, PIT_DURATION)
          /\ clock_realtime' = Duration_add(clock_realtime, PIT_DURATION)
          /\ ticks' = ticks + 1
          /\ contexts' = tick_time(contexts, current)
          /\ context_switch(contexts')
          /\ trap' = [Trap(interrupt,
                           count_entry(interrupts, interrupt).index,
                           eoi(interrupt), << >>, TRUE)
                         EXCEPT !.steps = tick_steps(current_ok)]
          /\ UNCHANGED <<booted, schemes, closedFds, dupPairs>>
       \/ /\ arm(interrupt) = "irq"
          /\ trap' = Trap(interrupt, count_entry(interrupts, interrupt).index,
                          eoi(interrupt),
                          Environment_on_irq(schemes, interrupt - 32), TRUE)
          /\ UNCHANGED <<booted, schemes, contexts, current, last,
                         closedFds, dupPairs, clock_monotonic,
                         clock_realtime, ticks>>
       \/ /\ arm(interrupt) = "syscall"
          /\ syscall_handle
          /\ trap' = Trap(interrupt, count_entry(interrupts, interrupt).index,
                          eoi(interrupt), << >>, TRUE)
          /\ UNCHANGED <<closedFds, dupPairs, clock_monotonic,
                         clock_realtime, ticks>>
       \/ /\ arm(interrupt) = "exception"
          /\ current_ok
          /\ do_sys_exit
          /\ trap' = Trap(interrupt, count_entry(interrupts, interrupt).index,
                          << >>, << >>, FALSE)
          /\ UNCHANGED <<booted, schemes, closedFds, dupPairs,
                         clock_monotonic, clock_realtime, ticks>>
    /\ PipeIdle
    /\ CpuIdle
    /\ NetIdle

\* the entries to kernel() a run makes
MaxEntries == 4
\* the ticks a clock run makes
MaxTicks == 1000

Vectors == {0, 8, 31, 32, 33, 39, 40, 47, 48, 128, 254, 256}

NextTrap ==
    \/ KernelInit(Acpi, MaxPciDevices) /\ PipeIdle
    \/ \E v \in Vectors : entries < MaxEntries /\ kernel(v)

SpecTrap == Init /\ [][NextTrap]_vars

\* runs of ticks that end with another vector
NextClock ==
    \/ KernelInit(Acpi, MaxPciDevices) /\ PipeIdle
    \/ ticks < MaxTicks /\ entries = ticks + 1 /\ kernel(32)
    \/ \E v \in {0, 33, 128} : entries = ticks + 1 /\ kernel(v)

SpecClock == Init /\ [][NextClock]_vars


----------------------------------------------------------------------------
(* The clocks: C16, checked under SpecClock *)

\* the clock that is d plus n intervals of 4,500,572 ns, computed in
\* millions of nanoseconds and the rest
AfterTicks(d, n) ==
    LET rest == (d.nanos % 1000000) + (n * 500572)
        millions == (d.nanos \div 1000000) + (n * 4) + (rest \div 1000000)
    IN  [secs |-> d.secs + (millions \div 1000),
         nanos |-> ((millions % 1000) * 1000000) + (rest % 1000000)]

\* C16: each handling of vector 0x20 advances clock_monotonic and
\* clock_realtime by exactly 0 s 4,500,572 ns and no other entry to the
\* kernel changes them, so N ticks advance them by N x 4,500,572 ns
\* (1000 ticks: 4 s 500,572,000 ns), with nanos kept in
\* [0, 1,000,000,000).
C16_ClockTicks ==
    /\ [][IF ticks' = ticks + 1
          THEN /\ trap'.vector = 32
               /\ clock_monotonic' = AfterTicks(clock_monotonic, 1)
               /\ clock_realtime' = AfterTicks(clock_realtime, 1)
               /\ \/ /\ clock_monotonic'.secs = clock_monotonic.secs
                     /\ clock_monotonic'.nanos
                            = clock_monotonic.nanos + 4500572
                  \/ /\ clock_monotonic'.secs = clock_monotonic.secs + 1
                     /\ clock_monotonic'.nanos
                            = clock_monotonic.nanos + 4500572 - 1000000000
          ELSE /\ ticks' = ticks
               /\ trap'.vector # 32
               /\ clock_monotonic' = clock_monotonic
               /\ booted => clock_realtime' = clock_realtime]_vars
    /\ [](/\ clock_monotonic.nanos \in 0..999999999
          /\ clock_realtime.nanos \in 0..999999999
          /\ clock_monotonic = AfterTicks([secs |-> 0, nanos |-> 0], ticks)
          /\ booted => clock_realtime = AfterTicks(Rtc_time, ticks)
          /\ ticks = 1000
                 => clock_monotonic = [secs |-> 4, nanos |-> 500572000])

\* the thousandth tick
C16_Witness ==
    /\ ticks = 1000
    /\ trap.vector = 32
    /\ clock_monotonic = [secs |-> 4, nanos |-> 500572000]
    /\ interrupts[32] = 1000


----------------------------------------------------------------------------
(* The dispatcher's counters, EOI and IRQ fan-out: C17..C20 under SpecTrap *)

\* a step that enters kernel()
Entered == entries' = entries + 1

\* C17: an entry with a vector v < 0xFF adds exactly 1 to interrupts[v]
\* and leaves every other counter alone; an entry with v = 0xFF or
\* v > 0xFF changes no counter; no index outside 0..255 is used.
C17_Counters ==
    [][Entered =>
        LET v == trap'.vector IN
        /\ DOMAIN interrupts' = 0..255
        /\ IF v < 255
           THEN /\ trap'.index = v
                /\ v \in 0..255
                /\ interrupts'[v] = interrupts[v] + 1
                /\ \A w \in 0..255 : w # v => interrupts'[w] = interrupts[w]
           ELSE /\ trap'.index = -1
                /\ interrupts' = interrupts]_vars

\* the vector 0xFE counted once, behind an entry above 0xFF that was not
C17_Witness ==
    /\ trap.vector = 256
    /\ interrupts[254] = 1
    /\ \A w \in 0..255 : w # 254 => interrupts[w] = 0
    /\ entries = 3

\* C18 (as amended): an entry with the vector 0x80 adds exactly 1 to
\* interrupts[0x80] before the syscall is handled, as for every vector
\* below 0xFF.
C18_SyscallCounted ==
    [][(Entered /\ trap'.vector = 128)
           => /\ interrupts'[128] = interrupts[128] + 1
              /\ trap'.index = 128
              /\ last'.op \in {"open", "close"}]_vars

\* the second syscall trap
C18_Witness ==
    /\ trap.vector = 128
    /\ interrupts[128] = 2
    /\ last.op = "close"

\* C18 as stated: interrupts[0x80] is the same after a syscall trap as
\* before it.
C18_Original ==
    [][(Entered /\ trap'.vector = 128)
           => interrupts'[128] = interrupts[128]]_vars

\* C19: an entry with a vector in [0x20, 0x30) ends with the byte 0x20
\* written to port 0x20, and also to port 0xA0 exactly when the vector is
\* 0x28 or above; an entry with any other vector writes to neither port.
C19_Eoi ==
    [][Entered =>
        LET v == trap'.vector
            master == [port |-> 32, byte |-> 32]
            slave == [port |-> 160, byte |-> 32]
            written == {trap'.ports[i] : i \in 1..Len(trap'.ports)}
        IN  IF v >= 32 /\ v < 48
            THEN /\ trap'.returned
                 /\ master \in written
                 /\ slave \in written <=> v >= 40
                 /\ written \subseteq {master, slave}
                 /\ Len(trap'.ports) = Cardinality(written)
            ELSE trap'.ports = << >>]_vars

\* an IRQ of the slave PIC acknowledged on both ports
C19_Witness ==
    /\ trap.vector = 40
    /\ Len(trap.ports) = 2
    /\ {trap.ports[1].port, trap.ports[2].port} = {32, 160}

----------------------------------------------------------------------------
(* Faults: C21, checked under SpecTrap *)

\* the contexts that context_switch may choose
Runnable == {c \in 1..Len(contexts) :
                ~contexts[c].blocked /\ ~contexts[c].exited}

\* C21: an entry with a vector outside 0x20..0x2F, 0x80 and 0xFF ends
\* the current context with do_sys_exit and does not come back: no end of
\* interrupt is sent, the context is gone with its resources dropped and
\* it is never the running context again while another one can run;
\* every other context keeps its fields and is still switched to.
C21_FaultExits ==
    /\ [][(Entered /\ trap'.vector \notin (32..47) \cup {128, 255})
             => /\ ~trap'.returned
                /\ trap'.ports = << >> /\ trap'.calls = << >>
                /\ contexts'[current].exited
                /\ contexts'[current].files = << >>
                /\ \A c \in 1..Len(contexts) :
                       c # current => contexts'[c] = contexts[c]
                /\ schemes' = schemes
                /\ (Runnable \ {current}) # {}
                       => current' \in Runnable \ {current}]_vars
    /\ [](booted => (contexts[current].exited => Runnable = {}))
    /\ [][\A c \in 1..Len(contexts) :
              contexts[c].exited => contexts'[c] = contexts[c]]_vars

\* karp faulted with a divide by zero, kicmp ran next, and the tick after
\* switched on to kinit
C21_Witness ==
    /\ booted
    /\ contexts[2].exited
    /\ \A c \in {1, 3, 4} : ~contexts[c].exited
    /\ interrupts[0] = 1
    /\ interrupts[32] = 2
    /\ trap.vector = 32
    /\ current = 4

----------------------------------------------------------------------------
(* The rest of the file syscalls *)

\* do_sys_fsync and do_sys_ftruncate: `.and(Ok(0))` on the resource's
\* answer
sys_unit(files, list, fd, answer) ==
    LET r == sys_io(files, list, fd, answer) IN
    IF r.ret.ok THEN [r EXCEPT !.ret = Ok(0)] ELSE r

\* do_sys_mkdir, do_sys_rmdir and do_sys_unlink: the path is made
\* absolute and parsed, the Environment routes it, `.and(Ok(0))`
sys_path_unit(ctx, list, op, path_c, answer) ==
    LET url == Url_from_str(canonicalize(ctx.cwd, path_c)) IN
    IF ~url.valid
    THEN SysResult(Err("EINVAL"), ctx.files, list, NoResource, NoCall, << >>)
    ELSE LET r == IF op = "mkdir" THEN Environment_mkdir(list, url, answer)
                  ELSE IF op = "rmdir"
                  THEN Environment_rmdir(list, url, answer)
                  ELSE Environment_unlink(list, url, answer)
         IN  SysResult(IF r.ret.ok THEN Ok(0) ELSE r.ret, ctx.files,
                       r.schemes, NoResource, r.call, << >>)

\* do_sys_stat: the url is parsed before the stat pointer is looked at
sys_stat(ctx, list, path_c, stat, answer) ==
    LET url == Url_from_str(canonicalize(ctx.cwd, path_c)) IN
    IF ~url.valid
    THEN SysResult(Err("EINVAL"), ctx.files, list, NoResource, NoCall, << >>)
    ELSE IF stat # <<NULLPTR>>
    THEN LET r == Environment_stat(list, url, answer) IN
         SysResult(IF r.ret.ok THEN Ok(0) ELSE r.ret, ctx.files, r.schemes,
                   NoResource, r.call, << >>)
    ELSE SysResult(Err("EFAULT"), ctx.files, list, NoResource, NoCall,
                   << >>)

do_sys_fpath(c, fd, answer) ==
    Syscall("fpath", c, << >>, 0, fd,
            sys_io(contexts[c].files, schemes, fd, answer))

do_sys_fsync(c, fd, answer) ==
    Syscall("fsync", c, << >>, 0, fd,
            sys_unit(contexts[c].files, schemes, fd, answer))

do_sys_ftruncate(c, fd, answer) ==
    Syscall("ftruncate", c, << >>, 0, fd,
            sys_unit(contexts[c].files, schemes, fd, answer))

do_sys_mkdir(c, path, flags, answer) ==
    Syscall("mkdir", c, path, flags, 0,
            sys_path_unit(contexts[c], schemes, "mkdir", path, answer))

do_sys_rmdir(c, path, answer) ==
    Syscall("rmdir", c, path, 0, 0,
            sys_path_unit(contexts[c], schemes, "rmdir", path, answer))

do_sys_unlink(c, path, answer) ==
    Syscall("unlink", c, path, 0, 0,
            sys_path_unit(contexts[c], schemes, "unlink", path, answer))

do_sys_stat(c, path, stat, answer) ==
    Syscall("stat", c, path, 0, 0,
            sys_stat(contexts[c], schemes, path, stat, answer))

----------------------------------------------------------------------------
(* SpecLock: the file syscalls step by step, with the Intex guards they *)
(* hold: C22 and C23                                                    *)

\* the syscalls that end in a call of the Resource under the fd
FdOps == {"read", "write", "fsync", "ftruncate", "lseek", "fpath"}
\* the syscalls that end in a call of the Environment on the parsed path
PathOps == {"open", "mkdir", "rmdir", "stat", "unlink"}

LockPaths == {<<"debug", COLON>>, <<"nosuch", COLON>>, <<COLON>>}

\* the whole syscall of the frame f, the Resource or the provider
\* answering as chosen here
AtomicSyscall(f) ==
    LET c == current IN
    \/ /\ f.fn = "read"
       /\ \E a \in IoAnswers : do_sys_read(c, f.i, a)
    \/ /\ f.fn = "write"
       /\ \E a \in IoAnswers : do_sys_write(c, f.i, a)
    \/ /\ f.fn = "fsync"
       /\ \E a \in IoAnswers : do_sys_fsync(c, f.i, a)
    \/ /\ f.fn = "ftruncate"
       /\ \E a \in IoAnswers : do_sys_ftruncate(c, f.i, a)
    \/ /\ f.fn = "lseek"
       /\ \E a \in SeekAnswers : do_sys_lseek(c, f.i, 0, SEEK_SET, a)
    \/ /\ f.fn = "fpath"
       /\ \E a \in IoAnswers : do_sys_fpath(c, f.i, a)
    \/ /\ f.fn = "open"
       /\ \E a \in ProviderAnswers : do_sys_open(c, f.path, f.flags, a)
    \/ /\ f.fn = "mkdir"
       /\ \E a \in ProviderAnswers : do_sys_mkdir(c, f.path, f.flags, a)
    \/ /\ f.fn = "rmdir"
       /\ \E a \in ProviderAnswers : do_sys_rmdir(c, f.path, a)
    \/ /\ f.fn = "stat"
       /\ \E a \in ProviderAnswers : do_sys_stat(c, f.path, <<"stat">>, a)
    \/ /\ f.fn = "unlink"
       /\ \E a \in ProviderAnswers : do_sys_unlink(c, f.path, a)

\* the return of the syscall: its guards are dropped, and the drop of the
\* outermost one enables the interrupts
SysReturn(f) ==
    /\ AtomicSyscall(f)
    /\ pc' = [pc EXCEPT ![current] = RestPc(current)]
    /\ held' = << >>
    /\ intr' = TRUE
    /\ UNCHANGED enabled

\* `let contexts = ::env().contexts.lock();`
SysEnter(op, fd, path, flags) ==
    /\ booted
    /\ current_ok
    /\ pc[current] = RestPc(current)
    /\ held = << >>
    /\ pc' = [pc EXCEPT ![current] = Frame(op, "current", fd, path, flags)]
    /\ held' = <<"contexts">>
    /\ intr' = FALSE
    /\ UNCHANGED <<booted, schemes, contexts, current, last, enabled>>

\* a step of the code that leaves the state of the kernel alone
Stepped(at, i, guards) ==
    /\ pc' = [pc EXCEPT ![current].at = at, ![current].i = i]
    /\ held' = guards
    /\ UNCHANGED <<booted, schemes, contexts, current, last, enabled, intr>>

\* the scheme the Environment hands the url to: the index of the first
\* scheme of that name, 0 when the url has no scheme or none matches
routed_to(list, url) ==
    IF url.scheme = << >> THEN 0 ELSE first_match(list, url.scheme, 1)

\* from the guard to the call: `try!(contexts.current())`, then
\* get_file(fd), or the parse of the path and the scan of the Environment
\* under `self.schemes.lock()`; an error returns
SysLookup ==
    /\ booted
    /\ current_ok
    /\ pc[current].at = "current"
    /\ LET f == pc[current]
           ctx == contexts[current]
           url == Url_from_str(canonicalize(ctx.cwd, f.path))
       IN  IF f.fn \in FdOps
           THEN IF get_file(ctx.files, f.i).ok
                THEN Stepped("resource", f.i, held)
                ELSE SysReturn(f)
           ELSE IF url.valid /\ routed_to(schemes, url) # 0
                THEN Stepped("provider", routed_to(schemes, url),
                             Append(held, "schemes"))
                ELSE SysReturn(f)

\* the Resource or the provider answers, and the syscall returns
SysCall ==
    /\ booted
    /\ current_ok
    /\ pc[current].at \in {"resource", "provider"}
    /\ SysReturn(pc[current])

NextLock ==
    \/ KernelInit(Acpi, MaxPciDevices) /\ PipeIdle
    \/ /\ current # Kinit
       /\ ContextSwitch /\ PipeIdle /\ TrapIdle
    \/ /\ current = Kinit
       /\ \E op \in FdOps, fd \in 0..MaxFd : SysEnter(op, fd, << >>, 0)
       /\ UNCHANGED <<closedFds, dupPairs, pipes, clock_monotonic,
                      clock_realtime, interrupts, ticks, entries, trap>>
       /\ NetIdle
    \/ /\ current = Kinit
       /\ \E op \in PathOps, p \in LockPaths : SysEnter(op, 0, p, 0)
       /\ UNCHANGED <<closedFds, dupPairs, pipes, clock_monotonic,
                      clock_realtime, interrupts, ticks, entries, trap>>
       /\ NetIdle
    \/ /\ SysLookup
       /\ UNCHANGED <<closedFds, dupPairs, pipes, clock_monotonic,
                      clock_realtime, interrupts, ticks, entries, trap>>
       /\ NetIdle
    \/ /\ SysCall
       /\ UNCHANGED <<closedFds, dupPairs, pipes, clock_monotonic,
                      clock_realtime, interrupts, ticks, entries, trap>>
       /\ NetIdle

SpecLock == Init /\ [][NextLock]_vars

\* the guard of this lock is alive
Holds(lock) == \E i \in 1..Len(held) : held[i] = lock

\* C22: while the Resource operation of a file syscall runs, the contexts
\* lock the syscall took for the lookup is no longer held.
C22_NoLockOverIo ==
    \A c \in 1..Len(pc) : pc[c].at = "resource" => ~Holds("contexts")

\* C23: while the provider's operation runs, the schemes lock the
\* Environment took for the scan is no longer held.
C23_NoLockOverProvider ==
    \A c \in 1..Len(pc) : pc[c].at = "provider" => ~Holds("schemes")

----------------------------------------------------------------------------
(* SpecIdle: idle_loop step by step, with contexts that block and IRQs *)
(* that wake them: C24 and C27                                         *)

\* the scan of idle_loop without skip(1): the root context is looked at
idle_halt_all(list) == \A c \in 1..Len(list) : list[c].blocked

\* `for context in contexts.iter().skip(1)`: halt stays true exactly when
\* every context after the first is blocked
idle_halt(list) == \A c \in 2..Len(list) : list[c].blocked

\* the interrupt flag after the drop of the newest of these guards: the
\* release of the outermost guard enables the interrupts
Intex_release(guards, flag) == IF Len(guards) <= 1 THEN TRUE ELSE flag

\* a step of idle_loop, which the root context runs
IdleStep(from, to, i) ==
    /\ booted
    /\ current = 1
    /\ pc[1] = Pc("idle_loop", from, pc[1].i)
    /\ pc' = [pc EXCEPT ![1] = Pc("idle_loop", to, i)]
    /\ UNCHANGED <<booted, schemes, contexts, enabled>>

\* asm!("cli")
IdleCli ==
    /\ IdleStep("cli", "lock", 0)
    /\ intr' = FALSE
    /\ UNCHANGED <<current, last, held>>

\* env().contexts.lock()
IdleLock ==
    /\ IdleStep("lock", "scan", 0)
    /\ held' = Append(held, "contexts")
    /\ intr' = FALSE
    /\ UNCHANGED <<current, last>>

\* the for loop over the contexts; its guard is dropped behind it
IdleScan ==
    /\ IdleStep("scan", "decide", IF idle_halt(contexts) THEN 1 ELSE 0)
    /\ held' = SubSeq(held, 1, Len(held) - 1)
    /\ intr' = Intex_release(held, intr)
    /\ UNCHANGED <<current, last>>

\* `if halt`: asm!("sti ; hlt")
IdleHalt ==
    /\ pc[1].i = 1
    /\ IdleStep("decide", "hlt", 1)
    /\ intr' = TRUE
    /\ UNCHANGED <<current, last, held>>

\* else: asm!("sti ; nop")
IdleYield ==
    /\ pc[1].i = 0
    /\ IdleStep("decide", "switch", 0)
    /\ intr' = TRUE
    /\ UNCHANGED <<current, last, held>>

\* context_switch(), and the next turn of the loop
IdleSwitch ==
    /\ IdleStep("switch", "cli", 0)
    /\ context_switch(contexts)
    /\ UNCHANGED <<intr, held>>

\* an interrupt taken while the interrupts are enabled: its handler pushes
\* to the WaitQueue that context c waits on (c = 0: to none), and a
\* halted CPU goes on behind the hlt
Irq(c) ==
    /\ booted
    /\ intr
    /\ c # 0 => contexts[c].blocked
    /\ contexts' = IF c = 0 THEN contexts
                   ELSE [contexts EXCEPT ![c].blocked = FALSE]
    /\ pc' = IF pc[1].at = "hlt" THEN [pc EXCEPT ![1] = RestPc(1)] ELSE pc
    /\ c = 0 => pc[1].at = "hlt"
    /\ last' = Last("irq", c, << >>, 0, 0, NoSys)
    /\ UNCHANGED <<booted, schemes, current, enabled, intr, held>>

\* WaitQueue::pop on an empty queue by the running context: it is marked
\* blocked and yields
Block ==
    /\ booted
    /\ current # 1
    /\ ~contexts[current].blocked
    /\ contexts' = [contexts EXCEPT ![current].blocked = TRUE]
    /\ context_switch(contexts')
    /\ UNCHANGED <<booted, schemes, enabled, intr, held, pc>>

\* the timer preempts the running context
Preempt ==
    /\ intr
    /\ pc[1].at # "hlt"
    /\ ContextSwitch
    /\ UNCHANGED <<enabled, intr, held, pc>>

IdleFrame ==
    /\ UNCHANGED <<closedFds, dupPairs, pipes, clock_monotonic,
                   clock_realtime, interrupts, ticks, entries, trap>>
    /\ NetIdle

NextIdle ==
    \/ KernelInit(Acpi, MaxPciDevices) /\ PipeIdle
    \/ IdleCli /\ IdleFrame
    \/ IdleLock /\ IdleFrame
    \/ IdleScan /\ IdleFrame
    \/ IdleHalt /\ IdleFrame
    \/ IdleYield /\ IdleFrame
    \/ IdleSwitch /\ IdleFrame
    \/ \E c \in 0..4 : Irq(c) /\ IdleFrame
    \/ Block /\ IdleFrame
    \/ Preempt /\ IdleFrame

SpecIdle == Init /\ [][NextIdle]_vars

\* C24: in a turn of idle_loop the interrupts stay disabled from the cli
\* to the `sti; hlt`, the release of the contexts lock included, and the
\* CPU does not halt while a context other than the root can run.
C24_IdleMasked ==
    /\ [](booted => (pc[1].at \in {"lock", "scan", "decide"} => ~intr))
    /\ [][(booted /\ pc[1].at = "decide" /\ pc'[1].at = "hlt")
             => idle_halt(contexts)]_vars

\* C27: the scan of a turn of idle_loop looks at every context but the
\* first; the turn halts with `sti; hlt` exactly when the scan found all
\* of them blocked (so too when the root is the only context), and
\* otherwise enables the interrupts and calls context_switch; the blocked
\* flag of the root has no part in it.
C27_IdleDecision ==
    /\ [][(booted /\ pc[1].at = "scan" /\ pc'[1].at # "scan")
             => /\ pc'[1].at = "decide"
                /\ pc'[1].i = 1
                      <=> \A c \in 1..Len(contexts) :
                              c # 1 => contexts[c].blocked]_vars
    /\ [][(booted /\ pc[1].at = "decide" /\ pc'[1].at # "decide")
             => /\ intr'
                /\ pc'[1].at = IF pc[1].i = 1 THEN "hlt" ELSE "switch"
                /\ current' = current]_vars
    /\ [][(booted /\ pc[1].at = "switch" /\ current = 1
              /\ pc'[1].at # "switch")
             => /\ last'.op = "switch"
                /\ current' \in Runnable]_vars
    /\ [](booted
             => /\ \A b \in BOOLEAN :
                       idle_halt([contexts EXCEPT ![1].blocked = b])
                           = idle_halt(contexts)
                /\ idle_halt(SubSeq(contexts, 1, 1)))

\* the CPU halted by the root, which is not blocked itself, with karp,
\* kicmp and kinit all blocked
C27_Witness ==
    /\ booted
    /\ pc[1].at = "hlt"
    /\ current = 1
    /\ \A c \in 2..4 : contexts[c].blocked
    /\ ~contexts[1].blocked
    /\ intr

----------------------------------------------------------------------------
(* SpecBoot: init() statement by statement, with file syscalls made *)
(* before and just after the root context is pushed: C25 and C29    *)

\* init() with the scheduler enabled right behind the push of the root
init_steps_enable_first ==
    <<"root", "enable", "acpi", "rtc", "schemes", "karp", "kicmp", "kinit">>

\* the statements of init() behind `ENV_PTR = Some(..)`, in program order
init_steps ==
    <<"root", "acpi", "rtc", "schemes", "karp", "kicmp", "enable", "kinit">>

\* kernel(0xFF) up to `ENV_PTR = Some(&mut *Box::into_raw(Environment::new()))`
InitEnter ==
    /\ ~booted
    /\ booted' = TRUE
    /\ entries' = entries + 1
    /\ interrupts' = count_entry(interrupts, 255).counters
    /\ trap' = Trap(255, count_entry(interrupts, 255).index, << >>, << >>,
                    FALSE)
    /\ last' = Last("init", 0, << >>, 0, 0, NoSys)
    /\ pc' = <<Pc("init", init_steps[1], 1)>>
    /\ UNCHANGED <<schemes, contexts, current, closedFds, dupPairs, pipes,
                   clock_monotonic, clock_realtime, ticks, enabled, intr,
                   held>>
    /\ NetIdle

\* Context::spawn(name, ..), and a context pushed by hand: one more
\* context at the end of the list
spawn(name) ==
    /\ contexts' = Append(contexts, Context(name))
    /\ closedFds' = Append(closedFds, {})
    /\ dupPairs' = Append(dupPairs, {})

\* the statement of init() at pc[1], then the next one; behind the last
\* one kernel() calls idle_loop()
InitStep ==
    LET k == pc[1].i
        st == pc[1].at
        target == init_schemes(Acpi, MaxPciDevices)
        again == st = "schemes" /\ Len(schemes) + 1 < Len(target)
        next == IF again THEN Pc("init", st, k)
                ELSE IF k = Len(init_steps) THEN RestPc(1)
                ELSE Pc("init", init_steps[k + 1], k + 1)
    IN  /\ booted
        /\ pc[1].fn = "init"
        /\ pc' = IF st \in {"karp", "kicmp", "kinit"}
                 THEN Append([pc EXCEPT ![1] = next], RestPc(Len(pc) + 1))
                 ELSE [pc EXCEPT ![1] = next]
        /\ IF st \in {"root", "karp", "kicmp", "kinit"}
           THEN spawn(IF st = "root" THEN "kidle" ELSE st)
           ELSE UNCHANGED <<contexts, closedFds, dupPairs>>
        /\ current' = IF st = "root" THEN 1 ELSE current
        /\ schemes' = IF (st = "acpi" /\ Acpi) \/ st = "schemes"
                      THEN Append(schemes, target[Len(schemes) + 1])
                      ELSE schemes
        /\ clock_realtime' = IF st = "rtc" THEN Rtc_time ELSE clock_realtime
        /\ enabled' = IF st = "enable" THEN TRUE ELSE enabled
        /\ UNCHANGED <<booted, last, pipes, clock_monotonic, interrupts,
                       ticks, entries, trap, intr, held>>
        /\ NetIdle

\* the result of the syscall when its other checks come first
try_current_late(cur, list, body) ==
    IF ~body.ret.ok \/ cur # 0 THEN body
    ELSE SysResult(Err("ESRCH"), << >>, list, NoResource, NoCall, << >>)

\* `try!(contexts.current())` ahead of the body of the syscall
try_current(cur, list, body) ==
    IF cur = 0
    THEN SysResult(Err("ESRCH"), << >>, list, NoResource, NoCall, << >>)
    ELSE body

\* the context the body of a syscall works on
CurrentContext == IF current_ok THEN contexts[current] ELSE Context("")

\* a file syscall made by the code that runs, a current context or not
BootSyscall(op, path, flags, fd, body) ==
    LET r == try_current(current, schemes, body) IN
    /\ booted
    /\ IF current_ok
       THEN Syscall(op, current, path, flags, fd, r)
       ELSE /\ last' = Last(op, 0, path, flags, fd, r)
            /\ schemes' = r.schemes
            /\ UNCHANGED <<booted, contexts, current>>

BootPaths == {<<"debug", COLON>>, <<BADBYTES>>}
StatPointers == {<<NULLPTR>>, <<"stat">>}

\* the sixteen file syscalls
BootSyscalls ==
    LET ctx == CurrentContext
        files == ctx.files
    IN
    \/ \E p \in BootPaths :
           BootSyscall("chdir", p, 0, 0,
                       SysResult(Ok(0), files, schemes, NoResource, NoCall,
                                 << >>))
    \/ BootSyscall("close", << >>, 0, 0, sys_close(files, schemes, 0))
    \/ BootSyscall("dup", << >>, 0, 0, sys_dup(files, schemes, 0, "ok"))
    \/ BootSyscall("fpath", << >>, 0, 0, sys_io(files, schemes, 0, Ok(1)))
    \/ \E st \in StatPointers :
           BootSyscall("fstat", st, 0, 0,
                       sys_fstat(files, schemes, 0, st, Ok(0)))
    \/ BootSyscall("fsync", << >>, 0, 0, sys_unit(files, schemes, 0, Ok(1)))
    \/ BootSyscall("ftruncate", << >>, 0, 0,
                   sys_unit(files, schemes, 0, Ok(1)))
    \/ \E w \in {SEEK_SET, 3} :
           BootSyscall("lseek", << >>, w, 0,
                       sys_lseek(files, schemes, 0, 0, w, Ok(0)))
    \/ \E p \in BootPaths :
           BootSyscall("mkdir", p, 0, 0,
                       sys_path_unit(ctx, schemes, "mkdir", p, "ok"))
    \/ \E p \in BootPaths :
           BootSyscall("open", p, 0, 0, sys_open(ctx, schemes, p, 0, "ok"))
    \/ \E nonnull \in BOOLEAN :
           /\ 1 \notin LivePipes
           /\ BootSyscall("pipe2", IF nonnull THEN << >> ELSE <<NULLPTR>>,
                          0, 0, sys_pipe2(files, schemes, nonnull, 1))
    \/ BootSyscall("read", << >>, 0, 0, sys_io(files, schemes, 0, Ok(1)))
    \/ \E p \in BootPaths :
           BootSyscall("rmdir", p, 0, 0,
                       sys_path_unit(ctx, schemes, "rmdir", p, "ok"))
    \/ \E p \in BootPaths, st \in StatPointers :
           BootSyscall("stat", p \o st, 0, 0,
                       sys_stat(ctx, schemes, p, st, "ok"))
    \/ \E p \in BootPaths :
           BootSyscall("unlink", p, 0, 0,
                       sys_path_unit(ctx, schemes, "unlink", p, "ok"))
    \/ BootSyscall("write", << >>, 0, 0, sys_io(files, schemes, 0, Ok(1)))

NextBoot ==
    \/ InitEnter
    \/ InitStep
    \/ ContextSwitch /\ PipeIdle /\ TrapIdle
    \/ /\ pc[1].at \in {"root", "acpi"}
       /\ BootSyscalls
       /\ UNCHANGED <<closedFds, dupPairs>>
       /\ PipeIdle /\ TrapIdle

SpecBoot == Init /\ [][NextBoot]_vars

FileOps ==
    {"chdir", "close", "dup", "fpath", "fstat", "fsync", "ftruncate",
     "lseek", "mkdir", "open", "pipe2", "read", "rmdir", "stat", "unlink",
     "write"}

\* C25: a file syscall made while no context is current returns ESRCH,
\* whatever else is wrong with its arguments, calls no scheme and no
\* resource, and leaves the contexts and the scheme list as they are.
C25_NoCurrentIsEsrch ==
    [][(booted /\ ~current_ok /\ last' # last /\ last'.op \in FileOps)
           => /\ last'.ret = Err("ESRCH")
              /\ last'.call = NoCall
              /\ last'.res = NoResource
              /\ last'.out = << >>
              /\ contexts' = contexts
              /\ schemes' = schemes
              /\ current' = current]_vars

\* pipe2 with a null out_fds before the root context is pushed
C25_Witness ==
    /\ booted
    /\ contexts = << >>
    /\ last.op = "pipe2"
    /\ last.path = <<NULLPTR>>
    /\ last.ret = Err("ESRCH")

\* the names of the contexts, in push order
ContextNames == [c \in 1..Len(contexts) |-> contexts[c].name]

\* C29: in init() the root context is pushed first; contexts.enabled is
\* false, and a context switch changes nothing, until every built-in
\* scheme is registered and karp and kicmp are spawned; it is true before
\* kinit is spawned; and kernel(0xFF) goes on into idle_loop and never
\* returns.
C29_InitOrder ==
    /\ [](contexts # << >> => contexts[1].name = "kidle")
    /\ [][\A c \in 1..Len(contexts) :
              /\ c <= Len(contexts')
              /\ contexts'[c].name = contexts[c].name]_vars
    /\ [](enabled
             => /\ schemes = init_schemes(Acpi, MaxPciDevices)
                /\ SubSeq(ContextNames, 1, 3) = <<"kidle", "karp", "kicmp">>)
    /\ [][(~enabled /\ current_ok) => current' = current]_vars
    /\ [](Len(contexts) >= 4 => enabled /\ contexts[4].name = "kinit")
    /\ [](booted => trap.vector = 255 /\ ~trap.returned)
    /\ [][pc[1].fn = "idle_loop" => pc'[1].fn = "idle_loop"]_vars
    /\ [](pc[1].fn = "idle_loop"
             => /\ enabled
                /\ ContextNames = <<"kidle", "karp", "kicmp", "kinit">>
                /\ schemes = init_schemes(Acpi, MaxPciDevices)
                /\ clock_realtime = Rtc_time)

\* a context switch tried with karp and kicmp spawned and the scheduler
\* not yet enabled: the root still runs
C29_Witness ==
    /\ pc[1] = Pc("init", "enable", 7)
    /\ ~enabled
    /\ last.op = "switch"
    /\ current = 1
    /\ Len(contexts) = 3
    /\ schemes = init_schemes(Acpi, MaxPciDevices)

----------------------------------------------------------------------------
(* Urls without a scheme: C26 and C30, checked under SpecEnv *)

\* C26: Environment.open of a url with an empty scheme, a reference that
\* is not empty after stripping '/', and O_CREAT not set returns ENOENT,
\* registers nothing and calls no provider, also when a scheme of the
\* reference's name is registered.
C26_OpenNoCreate ==
    [][LET url == Url_from_str(last'.path) IN
       (/\ last'.op = "Environment.open"
        /\ url.scheme = << >>
        /\ trim_matches(url.reference) # << >>
        /\ ~HasFlag(last'.flags, O_CREAT))
       => /\ last'.ret = Err("ENOENT")
          /\ last'.res = NoResource
          /\ last'.call = NoCall
          /\ schemes' = schemes]_vars

\* ":debug" opened without O_CREAT on a machine that has the debug scheme
C26_Witness ==
    /\ last.op = "Environment.open"
    /\ last.path = <<COLON, "debug">>
    /\ last.flags = 0
    /\ last.ret = Err("ENOENT")
    /\ Named(schemes, <<"debug">>) # {}

\* C30: Environment.mkdir, rmdir, stat and unlink of a url with an empty
\* scheme return ENOENT, call no provider and leave the list alone, also
\* when a scheme with an empty name is registered.
C30_UnitNoScheme ==
    [][(/\ last'.op \in EnvOps \ {"Environment.open"}
        /\ Url_from_str(last'.path).scheme = << >>)
       => /\ last'.ret = Err("ENOENT")
          /\ last'.call = NoCall
          /\ schemes' = schemes]_vars

\* a mkdir of ":custom" with schemes of no name (ACPI, PS/2, serial)
\* registered
C30_Witness ==
    /\ last.op = "Environment.mkdir"
    /\ last.path = <<COLON, "custom">>
    /\ last.ret = Err("ENOENT")
    /\ Cardinality(Named(schemes, << >>)) >= 3

----------------------------------------------------------------------------
(* The tick: C28, checked under SpecTrap *)

\* the position of a step among the steps of an entry, 0 when it is not
\* one of them
StepAt(steps, name) ==
    IF \E i \in 1..Len(steps) : steps[i] = name
    THEN CHOOSE i \in 1..Len(steps) : steps[i] = name
    ELSE 0

----------------------------------------------------------------------------
(* chdir: C31, checked under SpecChdir *)

\* paths with a scheme that is served, with one that is not, and without
ChdirPaths ==
    {<<"debug", COLON>>, <<"nosuch", COLON>>, <<COLON>>, <<"a">>,
     <<SLASH>>, <<NULLPTR>>}

ChdirSyscalls ==
    \/ \E p \in ChdirPaths : do_sys_chdir(Kinit, p)
    \/ \E p \in {<<"debug", COLON>>}, a \in ProviderAnswers :
           do_sys_open(Kinit, p, 0, a)
    \/ \E fd \in 0..MaxFd : do_sys_close(Kinit, fd)

NextChdir ==
    \/ KernelInit(Acpi, MaxPciDevices) /\ PipeIdle
    \/ ContextSwitch /\ PipeIdle /\ TrapIdle
    \/ ChdirSyscalls /\ NoHistory /\ PipeIdle /\ TrapIdle

SpecChdir == Init /\ [][NextChdir]_vars

\* C31: chdir by a running context returns 0 and sets the cwd of that
\* context to the path itself when it contains ':' and to the old cwd
\* followed by the path otherwise; no provider is called, whether or not
\* a scheme serves the target; the file tables, the other contexts and
\* the scheme list stay; chdir to a path with a scheme, repeated, changes
\* nothing.
C31_Chdir ==
    [][last'.op = "chdir" =>
        LET c == last'.ctx
            old == contexts[c].cwd
        IN  /\ last'.ret = Ok(0)
            /\ last'.call = NoCall
            /\ \E str \in c_string_to_str(last'.path) :
                   /\ (\E i \in 1..Len(str) : str[i] = COLON)
                          => contexts'[c].cwd = str
                   /\ (\A i \in 1..Len(str) : str[i] # COLON)
                          => contexts'[c].cwd = old \o str
                   /\ ((\E i \in 1..Len(str) : str[i] = COLON)
                           /\ old = str)
                          => contexts' = contexts
            /\ contexts'[c].files = contexts[c].files
            /\ \A d \in 1..Len(contexts) :
                   d # c => contexts'[d] = contexts[d]
            /\ Len(contexts') = Len(contexts)
            /\ schemes' = schemes
            /\ current' = current]_vars

\* kinit, holding an open file, has changed to "nosuch:", which no scheme
\* serves
C31_Witness ==
    /\ last.op = "chdir"
    /\ last.path = <<"nosuch", COLON>>
    /\ last.ret = Ok(0)
    /\ contexts[Kinit].cwd = <<"nosuch", COLON>>
    /\ contexts[Kinit].files # << >>
    /\ first_match(schemes, <<"nosuch">>, 1) = 0

----------------------------------------------------------------------------
(* lseek from the start: C32, checked under SpecSeek *)

\* the values of an isize
Isizes == (0 - 2 ^ (UsizeBits - 1))..(2 ^ (UsizeBits - 1) - 1)

----------------------------------------------------------------------------
(* The RTL8139 driver: C33, checked under SpecNet *)

\* the sends a run makes between two inits
MaxSends == 5

\* the I/O bases of two cards, and frame lengths below and above 0x1FFF
Bases == {49152, 49408}
Lens == {60, 8252}

\* `base + 0x20 + RTL8139_TX*4`: the transmit start address register
TSAD(base, tx) == base + 32 + tx * 4
\* `base + 0x10 + RTL8139_TX*4`: the transmit status register
TSD(base, tx) == base + 16 + tx * 4
\* `len as u32 & 0x1FFF`
tx_len(len) == len % 8192

\* the index advanced over five descriptors
RTL8139_next_five(tx) == (tx + 1) % 5

\* `RTL8139_TX = (RTL8139_TX + 1) % 4`
RTL8139_next(tx) == (tx + 1) % 4

\* RTL8139::init up to its loop: the card is told to reset
RTL8139_init(base) ==
    /\ rtl8139.at = "idle"
    /\ rtl8139' = Rtl("init", "reset", Tx(base, 0, 0, 0, 0), rtl8139.sent)
    /\ UNCHANGED RTL8139_TX

\* the card has reset: the loop of init ends, the index is zeroed and the
\* receive side is set up
RTL8139_init_done ==
    /\ rtl8139.at = "reset"
    /\ RTL8139_TX' = 0
    /\ rtl8139' = Rtl("init", "idle", NoTx, << >>)

\* RTL8139::send up to its loop: the address and the length are written
\* to the registers of the descriptor RTL8139_TX
RTL8139_send(base, len) ==
    /\ rtl8139.at = "idle"
    /\ Len(rtl8139.sent) < MaxSends
    /\ rtl8139' = Rtl("send", "wait",
                      Tx(base, TSAD(base, RTL8139_TX),
                         TSD(base, RTL8139_TX), 0, tx_len(len)),
                      rtl8139.sent)
    /\ UNCHANGED RTL8139_TX

\* the card has moved the frame out of memory: the loop of send, which
\* polls the status register of the descriptor RTL8139_TX, ends and the
\* index advances
RTL8139_send_done ==
    /\ rtl8139.at = "wait"
    /\ RTL8139_TX' = RTL8139_next(RTL8139_TX)
    /\ rtl8139' = Rtl("send", "idle", NoTx,
                      Append(rtl8139.sent,
                             [rtl8139.tx EXCEPT
                                 !.poll = TSD(rtl8139.tx.base,
                                              RTL8139_TX)]))

\* RTL8139::handle: the receive ring is drained; the index is not touched
RTL8139_handle(base) ==
    /\ rtl8139.at = "idle"
    /\ rtl8139' = Rtl("handle", "idle", NoTx, rtl8139.sent)
    /\ UNCHANGED RTL8139_TX

\* the kernel outside the driver stays
NetFrame ==
    UNCHANGED <<booted, schemes, contexts, current, last, closedFds,
                dupPairs, pipes, clock_monotonic, clock_realtime,
                interrupts, ticks, entries, trap, enabled, intr, held, pc>>

NextNet ==
    \/ \E b \in Bases : RTL8139_init(b) /\ NetFrame
    \/ RTL8139_init_done /\ NetFrame
    \/ \E b \in Bases, len \in Lens : RTL8139_send(b, len) /\ NetFrame
    \/ RTL8139_send_done /\ NetFrame
    \/ \E b \in Bases : RTL8139_handle(b) /\ NetFrame

SpecNet == Init /\ [][NextNet]_vars

\* the descriptor a transmit used, by the port its address went to
DescriptorOf(t) == (t.tsad - t.base - 32) \div 4

\* C33: RTL8139_TX is always one of 0, 1, 2, 3; init leaves it 0; a send
\* that completes has written the address to base + 0x20 + 4 * RTL8139_TX
\* and the length to base + 0x10 + 4 * RTL8139_TX, has polled that status
\* register, and leaves the index one higher, 0 after 3; the sends since
\* the last init (since boot before the first) used the descriptors
\* 0, 1, 2, 3, 0, ... in this order.
C33_TxCyclic ==
    /\ [](RTL8139_TX \in {0, 1, 2, 3})
    /\ [][(rtl8139.at = "reset" /\ rtl8139'.at = "idle")
             => RTL8139_TX' = 0]_vars
    /\ [][(rtl8139.at = "wait" /\ rtl8139'.at = "idle")
             => LET t == rtl8139'.sent[Len(rtl8139'.sent)] IN
                /\ Len(rtl8139'.sent) = Len(rtl8139.sent) + 1
                /\ t.tsad = t.base + 32 + 4 * RTL8139_TX
                /\ t.tsd = t.base + 16 + 4 * RTL8139_TX
                /\ t.poll = t.tsd
                /\ t.len < 8192
                /\ RTL8139_TX' = IF RTL8139_TX = 3 THEN 0
                                 ELSE RTL8139_TX + 1]_vars
    /\ [][(rtl8139.at = "idle" /\ rtl8139'.at # "reset"
              /\ rtl8139'.op # "init")
             => RTL8139_TX' = RTL8139_TX]_vars
    /\ [](\A k \in 1..Len(rtl8139.sent) :
              /\ DescriptorOf(rtl8139.sent[k]) = (k - 1) % 4
              /\ rtl8139.sent[k].tsad
                     = rtl8139.sent[k].base + 32 + 4 * ((k - 1) % 4))

\* five sends on two cards since the last init: the fifth used descriptor
\* 0 again and the index is 1
C33_Witness ==
    /\ rtl8139.op = "send"
    /\ rtl8139.at = "idle"
    /\ Len(rtl8139.sent) = 5
    /\ DescriptorOf(rtl8139.sent[4]) = 3
    /\ DescriptorOf(rtl8139.sent[5]) = 0
    /\ rtl8139.sent[1].base # rtl8139.sent[2].base
    /\ RTL8139_TX = 1

====
